---- MODULE Spec2Model ----
(***************************************************************************)
(* OpenAstroTracker polar-alignment server.                                *)
(*                                                                         *)
(* The module models the session control surface of src/app.py (start,     *)
(* stop, connect, disconnect), the auto-align worker loop                  *)
(* (auto_align_loop) at the granularity of its shared-state accesses and   *)
(* collaborator calls, and the serial command path of                      *)
(* src/mount_client.py.                                                     *)
(*                                                                         *)
(* Threads.  Every accepted start request creates a threading.Thread that  *)
(* runs auto_align_loop; the request handlers run on the web server.  A    *)
(* handler that touches only the module globals is one action; the worker  *)
(* is one action per collaborator call or shared-state access.             *)
(***************************************************************************)
EXTENDS Integers, Sequences, FiniteSets, TLC

\* ------------------------------------------------------------------ bounds

\* config.MAX_ITERATIONS (default 20, src/config.py:37), scaled down.
MAX_ITERATIONS == 2

\* Consecutive "busy" answers the mount may give in one settling phase of
\* the session-level specifications (the poll cap itself is WAIT_LIMIT).
MaxBusy == 1

\* The longest response _serial_command accumulates before its 2.0 s run out.
MaxResponse == 2

\* ------------------------------------------------------- program constants

\* app.py:512  while mount.is_adjusting() and wait_count < 30
WAIT_LIMIT == 30

\* config.TARGET_ACCURACY (arcseconds)
TARGET_ACCURACY == 60

\* Python's None, for the string-valued and the record-valued globals.
None == "None"
NoError == [none |-> TRUE]
\* alignment_thread before any thread was created
NoThread == 0

\* Threads that call into the mount client: the auto-align worker and the
\* web server's request handler.
Callers == {"loop", "http"}
NoHolder == "free"

\* Return values of the mount client's methods: None, a str, a bool.
RetNone == [kind |-> "None"]
RetStr(s) == [kind |-> "str", text |-> s]
RetBool(b) == [kind |-> "bool", value |-> b]

\* Text on the serial line is a sequence of chunks: a chunk stands for a run
\* of characters that is always read whole, "#" is the terminator.
\* mount_client.py:196  the substring "OpenAstro" the handshake looks for
VENDOR == << "Open", "Astro" >>

\* Python's `sub in s` on such text.
Contains(s, sub) ==
    \E i \in 1..(Len(s) - Len(sub) + 1) : SubSeq(s, i, i + Len(sub) - 1) = sub

\* What the mount may put on the line in answer to ':GVP#': nothing, the
\* OAT product name, a product name sharing a part with it.
GVPReplies ==
    { << >>,
      << "Open", "Astro", "#" >>,
      << "Astro", "#" >> }

\* What the mount may put on the line in answer to a query.
QueryReplies == { << >>, << "1", "#" >> }

\* Identities of the threads start requests create: a run, and the run
\* started after it (possibly while the first thread is still alive).
Workers == {1, 2}


\* Integer square root (floor).
Isqrt(n) == CHOOSE r \in 0..n : r * r <= n /\ n < (r + 1) * (r + 1)

\* pa_calculator.py:27-44, 141-152  PAError(az_error, alt_error, total_error):
\* az_error and alt_error in arcminutes (whole arcminutes in the model),
\* total_error = 60 * sqrt(az_error^2 + alt_error^2) arcseconds, kept to the
\* whole arcsecond below it (a comparison `total_error < t` with a whole
\* number t is unaffected).
PAError(az, alt) ==
    [az_error |-> az, alt_error |-> alt,
     total_error |-> Isqrt(3600 * (az * az + alt * alt))]

\* PAError values a measurement may produce.
PAErrors == { PAError(0, 0), PAError(0, 1), PAError(3, -4) }

VARIABLES
    \* app.py globals
    alignment_running,   \* app.py:42
    alignment_thread,    \* app.py:43  the Thread object last created (its id)
    last_pa_error,       \* app.py:44
    last_solve_result,   \* app.py:45
    \* the HTTP response of the latest session-control request
    response,
    \* MountClient._connected (mount_client.py:109)
    mount_connected,
    \* auto_align_loop activations, one per created thread
    pc,                  \* position in auto_align_loop
    iteration,           \* local `iteration`
    target_accuracy,     \* argument `target_accuracy`
    wait_count,          \* local `wait_count`
    \* observations of each activation (history)
    captures,            \* number of camera.capture calls made
    lastCapIter,         \* value of `iteration` at the latest capture call
    stopIter,            \* `iteration` when stop was first requested, else -1
    emitted,             \* number of events emitted, per message kind
    last_event,          \* message and level of the latest emit_status call
    moves,               \* move commands of the current correction that reached the mount
    journaling,          \* whether last_event and moves are being recorded
    \* the api_status request being served (app.py:62-110)
    spc,                 \* position in api_status, "idle" between requests
    status_pa_error,     \* the dict status['pa_error'] as built so far
    \* the environment: the PAError a measurement made now would yield in
    \* the scenario where corrections shrink it, and its value when each
    \* activation was started
    misalignment,
    run_misalignment,
    \* MountClient (mount_client.py:104-110) and the serial link
    mode,                \* self.mode
    serial_conn,         \* self.serial_conn: None, an open port, a closed port
    lock,                \* self._lock: the thread holding it, or NoHolder
    rx,                  \* characters received from the mount, not yet read
    \* the threads calling into the mount client
    mpc,                 \* position in send_command / connect
    op,                  \* the operation in progress: "send" or "connect"
    expect_response,     \* argument `expect_response`
    buffer,              \* local `response` of _serial_command
    ret,                 \* value the latest call returned
    gvp_response,        \* local `response` of _connect_serial
    answer,              \* is_tracking / is_slewing / is_adjusting: the call in
                         \* progress, or the value the latest call returned
    \* pa_calculator.py: the call of a function of the module being evaluated,
    \* its arguments and, once it returned, its result
    calc

vars == << alignment_running, alignment_thread, last_pa_error, last_solve_result,
           response, mount_connected,
           pc, iteration, target_accuracy, wait_count,
           captures, lastCapIter, stopIter, emitted, last_event, moves, journaling,
           spc, status_pa_error,
           misalignment, run_misalignment,
           mode, serial_conn, lock, rx, mpc, op, expect_response, buffer, ret,
           gvp_response, answer, calc >>

appGlobals == << alignment_running, alignment_thread, last_pa_error, last_solve_result >>
locals == << pc, iteration, target_accuracy, wait_count >>
history == << captures, lastCapIter, stopIter, emitted >>
journal == << last_event, moves, journaling >>
statusRequest == << spc, status_pa_error >>
\* the mount client and the threads inside it
devices == << mount_connected, mode, serial_conn,
             lock, rx, mpc, op, expect_response, buffer, ret, gvp_response >>
sky == << misalignment, run_misalignment >>
callers == << lock, rx, mpc, op, expect_response, buffer, ret, gvp_response >>
session == << alignment_running, alignment_thread, last_pa_error, last_solve_result,
             response, pc, iteration, target_accuracy, wait_count,
             captures, lastCapIter, stopIter, emitted, last_event, moves, journaling,
             spc, status_pa_error,
             misalignment, run_misalignment >>

\* Event kinds whose counts the properties below refer to.
Kinds == {"framing", "aligned", "max_iterations", "finished"}

\* A worker is alive from Thread.start() until auto_align_loop returns.
Alive(w) == pc[w] \notin {"unborn", "done"}

AliveWorkers == {w \in Workers : Alive(w)}

\* An emitter that loses the event.
emit_dropped(w, kind) == emitted

\* app.py:526-529  emit_status: count the event for the emitting activation.
emit_status(w, kind) == [emitted EXCEPT ![w][kind] = @ + 1]

\* app.py:526-529  the payload of one status event
Event(message, level) == [message |-> message, level |-> level]

NoEvent == Event("none", "none")

\* emit_status as the latest event of the emitting activation.
emit_last(w, message, level) ==
    IF journaling THEN [last_event EXCEPT ![w] = Event(message, level)] ELSE last_event

\* The move commands of activation w's current correction that reached the
\* mount are now `sent`.
note_moves(w, sent) ==
    IF journaling THEN [moves EXCEPT ![w] = sent] ELSE moves

\* No thread created yet, nothing observed.
\* No function of pa_calculator.py is being evaluated.
NoCall == [fn |-> "none"]

InitWorkers ==
    /\ alignment_running = FALSE
    /\ alignment_thread = NoThread
    /\ response = None
    /\ pc = [w \in Workers |-> "unborn"]
    /\ iteration = [w \in Workers |-> 0]
    /\ target_accuracy = [w \in Workers |-> TARGET_ACCURACY]
    /\ wait_count = [w \in Workers |-> 0]
    /\ captures = [w \in Workers |-> 0]
    /\ lastCapIter = [w \in Workers |-> 0]
    /\ stopIter = [w \in Workers |-> -1]
    /\ emitted = [w \in Workers |-> [k \in Kinds |-> 0]]
    /\ last_event = [w \in Workers |-> NoEvent]
    /\ moves = [w \in Workers |-> {}]
    /\ spc = "idle"
    /\ status_pa_error = << >>

\* mount_client.py:104-110  MountClient.__init__, no call in progress
InitMount ==
    /\ mount_connected = FALSE
    /\ mode = None
    /\ serial_conn = None
    /\ lock = NoHolder
    /\ rx = << >>
    /\ mpc = [t \in Callers |-> "idle"]
    /\ op = [t \in Callers |-> "send"]
    /\ expect_response = [t \in Callers |-> TRUE]
    /\ buffer = [t \in Callers |-> << >>]
    /\ ret = [t \in Callers |-> RetNone]
    /\ gvp_response = RetNone
    /\ answer = [t \in Callers |-> RetNone]

\* A mount that an earlier connect request attached.
InitMountConnected ==
    /\ mount_connected = TRUE
    /\ mode = "serial"
    /\ serial_conn = "open"
    /\ lock = NoHolder
    /\ rx = << >>
    /\ mpc = [t \in Callers |-> "idle"]
    /\ op = [t \in Callers |-> "send"]
    /\ expect_response = [t \in Callers |-> TRUE]
    /\ buffer = [t \in Callers |-> << >>]
    /\ ret = [t \in Callers |-> RetNone]
    /\ gvp_response = RetNone
    /\ answer = [t \in Callers |-> RetNone]

\* app.py:41-45, mount_client.py:104-110  the program state after import
InitProgram ==
    /\ InitWorkers
    /\ calc = NoCall
    /\ last_pa_error = NoError
    /\ last_solve_result = None
    /\ InitMount
    /\ misalignment = PAError(0, 0)
    /\ run_misalignment = [w \in Workers |-> PAError(0, 0)]

\* The state after import, last_event and moves not recorded.
Init == InitProgram /\ journaling = FALSE

\* The state after import, last_event and moves recorded.
InitObserved == InitProgram /\ journaling = TRUE

\* ------------------------------------------------------------ HTTP handlers

\* A guard that never rejects.
NeverRunning == FALSE

\* app.py:366  `if alignment_running:` a run is active
AlreadyRunning == alignment_running

\* app.py:361-379  `targets` is what the request body may carry as
\* target_accuracy (config.TARGET_ACCURACY when it carries none).
api_auto_align_start(targets) ==
    IF AlreadyRunning
    THEN /\ response' = "alreadyRunning"
         /\ UNCHANGED << appGlobals, devices, locals, history, journal, statusRequest, sky, answer, calc >>
    ELSE \E w \in Workers, t \in targets :
            /\ pc[w] = "unborn"
            /\ \A v \in Workers : v < w => pc[v] # "unborn"
            /\ alignment_running' = TRUE
            /\ alignment_thread' = w
            /\ pc' = [pc EXCEPT ![w] = "started"]
            /\ target_accuracy' = [target_accuracy EXCEPT ![w] = t]
            /\ response' = "success"
            /\ run_misalignment' = [run_misalignment EXCEPT ![w] = misalignment]
            /\ UNCHANGED << last_pa_error, last_solve_result, devices,
                            iteration, wait_count, history, journal, statusRequest, misalignment, answer, calc >>

\* A stop that reports a failure when no run is active.
StopRejectsWhenIdle ==
    /\ alignment_running' = FALSE
    /\ response' = IF alignment_running THEN "success" ELSE "notRunning"
    /\ stopIter' = [w \in Workers |->
                      IF Alive(w) /\ stopIter[w] = -1 THEN iteration[w] ELSE stopIter[w]]
    /\ UNCHANGED << alignment_thread, last_pa_error, last_solve_result, devices,
                    locals, captures, lastCapIter, emitted, journal, statusRequest, sky, answer, calc >>

\* app.py:382-388
api_auto_align_stop ==
    /\ alignment_running' = FALSE
    /\ response' = "success"
    /\ stopIter' = [w \in Workers |->
                      IF Alive(w) /\ stopIter[w] = -1 THEN iteration[w] ELSE stopIter[w]]
    /\ UNCHANGED << alignment_thread, last_pa_error, last_solve_result, devices,
                    locals, captures, lastCapIter, emitted, journal, statusRequest, sky, answer, calc >>

\* app.py:113-145  mount.connect unless connected, then camera.connect; either
\* may fail.  The camera is a collaborator whose state is not modelled: its
\* capture outcomes are unconstrained in Capture.
api_connect ==
    \E mount_ok \in BOOLEAN, camera_ok \in BOOLEAN :
        /\ mount_connected' = (mount_connected \/ mount_ok)
        /\ mode' = IF mount_connected' THEN "serial" ELSE None
        /\ \E opened \in BOOLEAN :
               serial_conn' = IF mount_connected' THEN "open"
                              ELSE IF opened \/ serial_conn # None THEN "closed"
                              ELSE None
        /\ response' = IF mount_connected' /\ camera_ok THEN "success" ELSE "error"
        /\ UNCHANGED << appGlobals, locals, history, journal, statusRequest, sky, callers, answer, calc >>

\* app.py:148-161
api_disconnect ==
    /\ alignment_running' = FALSE
    /\ mount_connected' = FALSE
    /\ mode' = None
    /\ serial_conn' = IF mode = "serial" /\ serial_conn # None THEN None ELSE serial_conn
    /\ response' = "success"
    /\ UNCHANGED << alignment_thread, last_pa_error, last_solve_result, locals,
                    history, journal, statusRequest, sky, callers, answer, calc >>

\* ---------------------------------------------------------- auto_align_loop

\* app.py:446  emit_status('Auto-align started'), first statement of the thread
LoopStart(w) ==
    /\ pc[w] = "started"
    /\ pc' = [pc EXCEPT ![w] = "loop"]
    /\ last_event' = emit_last(w, "Auto-align started", "info")
    /\ UNCHANGED << appGlobals, response, devices, iteration, target_accuracy,
                    wait_count, history, moves, journaling, statusRequest, sky, answer, calc >>

\* A loop condition that admits one iteration more.
LoopConditionInclusive(w) == alignment_running /\ iteration[w] <= MAX_ITERATIONS

\* app.py:448  while alignment_running and iteration < max_iterations
LoopCondition(w) == alignment_running /\ iteration[w] < MAX_ITERATIONS

\* app.py:448-450  the loop test and `iteration += 1`
LoopHead(w) ==
    /\ pc[w] = "loop"
    /\ IF LoopCondition(w)
       THEN /\ iteration' = [iteration EXCEPT ![w] = @ + 1]
            /\ pc' = [pc EXCEPT ![w] = "capture"]
            /\ last_event' = emit_last(w, "Capturing...", "info")
       ELSE /\ pc' = [pc EXCEPT ![w] = "exit"]
            /\ UNCHANGED << iteration, last_event >>
    /\ UNCHANGED << appGlobals, response, devices, target_accuracy, wait_count,
                    history, moves, journaling, statusRequest, sky, answer, calc >>

\* app.py:452-459  camera.capture; None when the camera is not connected or
\* the backend fails (camera_client.py:207-227).  `outcomes` is what the
\* collaborator may answer: TRUE for an image path, FALSE for None.
Capture(w, outcomes) ==
    /\ pc[w] = "capture"
    /\ \E ok \in outcomes :
          IF ok
          THEN /\ pc' = [pc EXCEPT ![w] = "solve"]
               /\ last_event' = emit_last(w, "Solving...", "info")
          ELSE /\ pc' = [pc EXCEPT ![w] = "loop"]
               /\ last_event' = emit_last(w, "Capture failed", "error")
    /\ captures' = [captures EXCEPT ![w] = @ + 1]
    /\ lastCapIter' = [lastCapIter EXCEPT ![w] = iteration[w]]
    /\ UNCHANGED << appGlobals, response, devices, iteration, target_accuracy,
                    wait_count, stopIter, emitted, moves, journaling, statusRequest, sky, answer, calc >>

\* app.py:461-468  solver.solve.  `outcomes` is what the collaborator may
\* answer: TRUE for a result, FALSE for None.
Solve(w, outcomes) ==
    /\ pc[w] = "solve"
    /\ \E ok \in outcomes :
          IF ok
          THEN /\ last_solve_result' = "result"
               /\ pc' = [pc EXCEPT ![w] = "measure"]
               /\ UNCHANGED << emitted, last_event >>
          ELSE /\ emitted' = emit_status(w, "framing")
               /\ last_event' = emit_last(w, "Plate solve failed - check framing", "warning")
               /\ pc' = [pc EXCEPT ![w] = "loop"]
               /\ UNCHANGED last_solve_result
    /\ UNCHANGED << alignment_running, alignment_thread, last_pa_error, response,
                    devices, iteration, target_accuracy, wait_count,
                    captures, lastCapIter, stopIter, moves, journaling, statusRequest, sky, answer, calc >>

\* A test that also accepts an error equal to the target.
AlignedInclusive(e, t) == e.total_error <= t

\* app.py:494  if pa_error.total_error < target_accuracy
Aligned(e, t) == e.total_error < t

\* mount_client.py:248-252  a command sent now does not wait: the client is
\* not connected (None at once), or no other thread holds self._lock
MountFree == ~mount_connected \/ lock = NoHolder

\* A failure handler that gives the run up.
AbortRun == "exit"

\* app.py:476-478  `continue` after 'Cannot read mount position'
AfterPositionFailure == "loop"

\* A success branch that goes on to correct.
KeepCorrecting == "move_azimuth"

\* app.py:495-499  `break` after 'Aligned!'
AfterAligned == "exit"

\* app.py:470-504  mount.get_position, parse, calculate_pa_error, the
\* aligned test.  `readings` is what the measurement may yield when the mount
\* answers: a PAError, or NoError for text that does not parse.  A mount that is
\* not connected answers (None, None) (mount_client.py:248-250).
Measure(w, readings) ==
    /\ pc[w] = "measure"
    /\ MountFree
    /\ \E r \in readings :
          IF ~mount_connected \/ r = NoError
          THEN /\ pc' = [pc EXCEPT ![w] = AfterPositionFailure]
               /\ last_event' = emit_last(w, "Cannot read mount position", "error")
               /\ UNCHANGED << last_pa_error, emitted >>
          ELSE /\ last_pa_error' = r
               /\ IF Aligned(r, target_accuracy[w])
                  THEN /\ emitted' = emit_status(w, "aligned")
                       /\ last_event' = emit_last(w, "Aligned!", "success")
                       /\ pc' = [pc EXCEPT ![w] = AfterAligned]
                  ELSE /\ pc' = [pc EXCEPT ![w] = "move_azimuth"]
                       /\ last_event' = emit_last(w, "Applying correction", "info")
                       /\ UNCHANGED emitted
    /\ UNCHANGED << alignment_running, alignment_thread, last_solve_result, response,
                    devices, iteration, target_accuracy, wait_count,
                    captures, lastCapIter, stopIter, moves, journaling, statusRequest, sky, answer, calc >>

\* app.py:506  mount.move_azimuth(az_correction): the command is written
\* when the client is connected, dropped otherwise (mount_client.py:248-250,
\* 448-449)
MoveAzimuth(w) ==
    /\ pc[w] = "move_azimuth"
    /\ MountFree
    /\ pc' = [pc EXCEPT ![w] = "move_altitude"]
    /\ moves' = note_moves(w, IF mount_connected THEN {"az"} ELSE {})
    /\ UNCHANGED << appGlobals, response, devices, iteration, target_accuracy,
                    wait_count, history, last_event, journaling, statusRequest, sky, answer, calc >>

\* app.py:507-511  mount.move_altitude(alt_correction); wait_count = 0.
\* `after` is what the misalignment may be once the correction is applied.
MoveAltitude(w, after) ==
    /\ pc[w] = "move_altitude"
    /\ MountFree
    /\ pc' = [pc EXCEPT ![w] = "settle"]
    /\ wait_count' = [wait_count EXCEPT ![w] = 0]
    /\ moves' = note_moves(w, IF mount_connected THEN moves[w] \cup {"alt"} ELSE moves[w])
    /\ misalignment' \in after
    /\ UNCHANGED << appGlobals, response, devices, iteration, target_accuracy,
                    history, last_event, journaling, statusRequest, run_misalignment, answer, calc >>

\* A poll condition that admits one poll more.
KeepWaitingInclusive(w, busy) == mount_connected /\ busy /\ wait_count[w] <= WAIT_LIMIT

\* app.py:512  while mount.is_adjusting() and wait_count < 30
KeepWaiting(w, busy) == mount_connected /\ busy /\ wait_count[w] < WAIT_LIMIT

\* app.py:512-517  while mount.is_adjusting() and wait_count < 30.
\* `answers` is what the mount may report about its motors; a mount that is
\* not connected yields False (mount_client.py:371-382).  wait_count is dead
\* once the loop is left (it is assigned 0 at app.py:511 before its next
\* use), so the model returns it to 0 there; the correction is over, and
\* `moves` is emptied.
Settle(w, answers) ==
    /\ pc[w] = "settle"
    /\ MountFree
    /\ \E busy \in answers :
          IF KeepWaiting(w, busy)
          THEN /\ wait_count' = [wait_count EXCEPT ![w] = @ + 1]
               /\ UNCHANGED << pc, moves >>
          ELSE /\ pc' = [pc EXCEPT ![w] = "loop"]
               /\ wait_count' = [wait_count EXCEPT ![w] = 0]
               /\ moves' = note_moves(w, {})
    /\ UNCHANGED << appGlobals, response, devices, iteration, target_accuracy,
                    history, last_event, journaling, statusRequest, sky, answer, calc >>

\* An exit that leaves the running flag as it is.
LoopExitKeepsFlag(w) ==
    /\ pc[w] = "exit"
    /\ emitted' =
          [emitted EXCEPT
             ![w]["max_iterations"] = IF iteration[w] >= MAX_ITERATIONS THEN @ + 1 ELSE @,
             ![w]["finished"] = @ + 1]
    /\ last_event' = emit_last(w, "Auto-align finished", "info")
    /\ pc' = [pc EXCEPT ![w] = "done"]
    /\ UNCHANGED << appGlobals, response, devices, iteration, target_accuracy,
                    wait_count, captures, lastCapIter, stopIter, moves, journaling, statusRequest, sky, answer, calc >>

\* app.py:519-523  the statements after the loop
LoopExit(w) ==
    /\ pc[w] = "exit"
    /\ emitted' =
          [emitted EXCEPT
             ![w]["max_iterations"] = IF iteration[w] >= MAX_ITERATIONS THEN @ + 1 ELSE @,
             ![w]["finished"] = @ + 1]
    /\ alignment_running' = FALSE
    /\ last_event' = emit_last(w, "Auto-align finished", "info")
    /\ pc' = [pc EXCEPT ![w] = "done"]
    /\ UNCHANGED << alignment_thread, last_pa_error, last_solve_result, response,
                    devices, iteration, target_accuracy, wait_count,
                    captures, lastCapIter, stopIter, moves, journaling, statusRequest, sky, answer, calc >>

\* What the mount may report in a settling phase of the session-level
\* specification: busy at most MaxBusy times in a row.
BusyAnswers(w) == IF wait_count[w] < MaxBusy THEN BOOLEAN ELSE {FALSE}

\* What a measurement may yield in the session-level specification: an error
\* below the default target, one equal to it, or unreadable mount text.
SessionReadings == {e \in PAErrors : e.total_error <= TARGET_ACCURACY} \cup {NoError}

\* One step of the thread running activation w, collaborators unconstrained.
Worker(w) ==
    \/ LoopStart(w)
    \/ LoopHead(w)
    \/ Capture(w, BOOLEAN)
    \/ Solve(w, BOOLEAN)
    \/ Measure(w, SessionReadings)
    \/ MoveAzimuth(w)
    \/ MoveAltitude(w, {misalignment})
    \/ Settle(w, BusyAnswers(w))
    \/ LoopExit(w)

Next ==
    \/ api_auto_align_start({TARGET_ACCURACY})
    \/ api_auto_align_stop
    \/ api_connect
    \/ api_disconnect
    \/ \E w \in Workers : Worker(w)

Spec == Init /\ [][Next]_vars

\* The threads are scheduled fairly: a thread that can take a step does.
FairSpec == Spec /\ \A w \in Workers : WF_vars(Worker(w))

\* The same program with last_event and moves recorded.
SpecObserved == InitObserved /\ [][Next]_vars

\* app.py:281-358  api_solve, the manual solve request.  `found` is whether a
\* capture file exists or the body names one (l.300-306), `outcomes` what
\* solver.solve may answer and `readings` what the position may yield when
\* the mount answers.  Neither assignment (l.316, 325) looks at
\* alignment_running.
api_solve(found, outcomes, readings) ==
    /\ MountFree
    /\ \E f \in found, ok \in outcomes, r \in readings :
          IF ~f
          THEN /\ response' = "noCaptures"
               /\ UNCHANGED << last_solve_result, last_pa_error >>
          ELSE IF ~ok
          THEN /\ response' = "solveFailed"
               /\ UNCHANGED << last_solve_result, last_pa_error >>
          ELSE /\ response' = "success"
               /\ last_solve_result' = "result"
               /\ last_pa_error' = IF mount_connected /\ r # NoError THEN r ELSE last_pa_error
    /\ UNCHANGED << alignment_running, alignment_thread, devices, locals,
                    history, journal, statusRequest, sky, answer, calc >>

\* The session with manual solve requests arriving as well.
NextManual ==
    \/ Next
    \/ api_solve(BOOLEAN, BOOLEAN, SessionReadings)

SpecManual == Init /\ [][NextManual]_vars

\* ----------------------------------------------------------------- scenarios

\* The session state an earlier manual solve (app.py:316, 325) or connect may
\* have left when a scenario begins.
InitScenario ==
    /\ InitWorkers
    /\ calc = NoCall
    /\ journaling = TRUE
    /\ last_pa_error \in PAErrors \cup {NoError}
    /\ last_solve_result \in {None, "result"}

\* Scenario "solve always fails": capture succeeds, solver.solve returns None,
\* nobody requests stop or disconnect.
InitSolveFail ==
    /\ InitScenario
    /\ (InitMount \/ InitMountConnected)
    /\ misalignment = PAError(0, 0)
    /\ run_misalignment = [w \in Workers |-> PAError(0, 0)]

SolveFailWorker(w) ==
    \/ LoopStart(w)
    \/ LoopHead(w)
    \/ Capture(w, {TRUE})
    \/ Solve(w, {FALSE})
    \/ LoopExit(w)

NextSolveFail ==
    \/ api_auto_align_start({TARGET_ACCURACY})
    \/ api_connect
    \/ \E w \in Workers : SolveFailWorker(w)

SpecSolveFail ==
    /\ InitSolveFail
    /\ [][NextSolveFail]_vars
    /\ \A w \in Workers : WF_vars(SolveFailWorker(w))

\* Scenario "the error shrinks by a fixed factor": capture, solve and the
\* position query succeed, every applied correction halves both components
\* of the misalignment (to the whole arcminute toward zero), nobody requests
\* stop or disconnect.
Half(x) == IF x < 0 THEN -((-x) \div 2) ELSE x \div 2

Shrink(e) == PAError(Half(e.az_error), Half(e.alt_error))

ShrinkStartErrors == { PAError(0, 1), PAError(0, 2), PAError(0, -8), PAError(16, 0), PAError(-12, 16) }

ShrinkTargets == {TARGET_ACCURACY, 150, 300}

InitShrink ==
    /\ InitScenario
    /\ InitMountConnected
    /\ misalignment \in ShrinkStartErrors
    /\ run_misalignment = [w \in Workers |-> misalignment]

ShrinkWorker(w) ==
    \/ LoopStart(w)
    \/ LoopHead(w)
    \/ Capture(w, {TRUE})
    \/ Solve(w, {TRUE})
    \/ Measure(w, {misalignment})
    \/ MoveAzimuth(w)
    \/ MoveAltitude(w, {Shrink(misalignment)})
    \/ Settle(w, BusyAnswers(w))
    \/ LoopExit(w)

NextShrink ==
    \/ api_auto_align_start(ShrinkTargets)
    \/ \E w \in Workers : ShrinkWorker(w)

SpecShrink ==
    /\ InitShrink
    /\ [][NextShrink]_vars
    /\ \A w \in Workers : WF_vars(ShrinkWorker(w))

\* The error measured in iteration n (n >= 1) of a run that starts at error e.
RECURSIVE ErrorAt(_, _)
ErrorAt(e, n) == IF n <= 1 THEN e ELSE ErrorAt(Shrink(e), n - 1)

\* The first iteration (up to MAX_ITERATIONS) whose error is below target t,
\* or 0 when there is none.
FirstBelow(e, t) ==
    LET S == {n \in 1..MAX_ITERATIONS : ErrorAt(e, n).total_error < t}
    IN  IF S = {} THEN 0 ELSE CHOOSE n \in S : \A m \in S : n <= m

\* Scenario "a motor stays busy": capture, solve and the position query
\* succeed, the error stays above target, and the mount answers every
\* is_adjusting query with a busy motor; nobody requests stop or disconnect.
StuckReading == PAError(3, -4)

InitStuck ==
    /\ InitScenario
    /\ InitMountConnected
    /\ misalignment = StuckReading
    /\ run_misalignment = [w \in Workers |-> StuckReading]

StuckWorker(w) ==
    \/ LoopStart(w)
    \/ LoopHead(w)
    \/ Capture(w, {TRUE})
    \/ Solve(w, {TRUE})
    \/ Measure(w, {StuckReading})
    \/ MoveAzimuth(w)
    \/ MoveAltitude(w, {misalignment})
    \/ Settle(w, {TRUE})
    \/ LoopExit(w)

NextStuck ==
    \/ api_auto_align_start({TARGET_ACCURACY})
    \/ \E w \in Workers : StuckWorker(w)

SpecStuck ==
    /\ InitStuck
    /\ [][NextStuck]_vars
    /\ \A w \in Workers : WF_vars(StuckWorker(w))

\* ---------------------------------------------------------------- api_status
\* The status request at the granularity of its mount commands and of its
\* reads of the global last_pa_error.  The worker is a thread of its own
\* (app.py:373) and may run between any two of them; other requests are
\* served only when this one has returned.

\* app.py:87-91  the commands get_position, is_tracking, is_slewing and
\* is_adjusting send (mount_client.py:311-312, 325, 338, 351, 371), in order
MountQueries == << "GR", "GD", "GIT", "GIS", "GX" >>

\* app.py:94-99  the entries of status['pa_error'], in evaluation order
PAErrorKeys == << "az", "alt", "total", "aligned" >>

After(seq, x) == LET i == CHOOSE j \in 1..Len(seq) : seq[j] = x
                 IN  IF i < Len(seq) THEN seq[i + 1] ELSE "end"

Range(seq) == {seq[i] : i \in 1..Len(seq)}

\* app.py:75-86  the request arrives; `if mount.connected:`
StatusBegin ==
    /\ spc = "idle"
    /\ status_pa_error' = << >>
    /\ spc' = IF mount_connected THEN MountQueries[1] ELSE "pa_error"
    /\ UNCHANGED << appGlobals, response, devices, locals, history, journal, sky, answer, calc >>

\* mount_client.py:248-252  send_command: `with self._lock:` entered; a
\* client that is not connected returns None before the lock
StatusCommand ==
    /\ spc \in Range(MountQueries)
    /\ IF mount_connected
       THEN /\ lock = NoHolder
            /\ lock' = "http"
            /\ UNCHANGED spc
       ELSE /\ spc' = IF After(MountQueries, spc) = "end" THEN "pa_error"
                      ELSE After(MountQueries, spc)
            /\ UNCHANGED lock
    /\ UNCHANGED << appGlobals, response, mount_connected, mode, serial_conn, rx,
                    mpc, op, expect_response, buffer, ret, gvp_response,
                    locals, history, journal, status_pa_error, sky, answer, calc >>

\* mount_client.py:252-258  the response arrived or the read timed out;
\* the lock is released and the command returns
StatusCommandReturn ==
    /\ spc \in Range(MountQueries)
    /\ lock = "http"
    /\ lock' = NoHolder
    /\ spc' = IF After(MountQueries, spc) = "end" THEN "pa_error"
              ELSE After(MountQueries, spc)
    /\ UNCHANGED << appGlobals, response, mount_connected, mode, serial_conn, rx,
                    mpc, op, expect_response, buffer, ret, gvp_response,
                    locals, history, journal, status_pa_error, sky, answer, calc >>

\* app.py:93  `if last_pa_error:`; without one the request returns
StatusTest ==
    /\ spc = "pa_error"
    /\ spc' = IF last_pa_error # NoError THEN PAErrorKeys[1] ELSE "idle"
    /\ UNCHANGED << appGlobals, response, devices, locals, history, journal,
                    status_pa_error, sky, answer, calc >>

\* What the entry of key k reads from the PAError e.
PAErrorEntry(k, e) ==
    CASE k = "az"      -> e.az_error
      [] k = "alt"     -> e.alt_error
      [] k = "total"   -> e.total_error
      [] k = "aligned" -> Aligned(e, TARGET_ACCURACY)

\* app.py:95-98  one entry of the dict: the global last_pa_error is loaded
\* anew for each; after the last one the request returns (l.110)
StatusRead ==
    /\ spc \in Range(PAErrorKeys)
    /\ status_pa_error' = [k \in DOMAIN status_pa_error \cup {spc} |->
                             IF k = spc THEN PAErrorEntry(k, last_pa_error)
                             ELSE status_pa_error[k]]
    /\ spc' = IF After(PAErrorKeys, spc) = "end" THEN "idle" ELSE After(PAErrorKeys, spc)
    /\ UNCHANGED << appGlobals, response, devices, locals, history, journal, sky, answer, calc >>

api_status ==
    \/ StatusBegin
    \/ StatusCommand
    \/ StatusCommandReturn
    \/ StatusTest
    \/ StatusRead

\* The session with status requests arriving as well.
NextStatus ==
    \/ spc = "idle" /\ api_auto_align_start({TARGET_ACCURACY})
    \/ spc = "idle" /\ api_auto_align_stop
    \/ spc = "idle" /\ api_connect
    \/ spc = "idle" /\ api_disconnect
    \/ \E w \in Workers : Worker(w)
    \/ api_status

SpecStatus == Init /\ [][NextStatus]_vars

\* ------------------------------------------------------------- mount client
\* The mount client at the granularity of its statements that touch shared
\* state, with the auto-align thread and the request handler as callers.

\* The session variables, which the mount client does not touch.
sessionVars == << session, sky >>

\* A condition that accepts every truthy reply.
HandshakeAcceptsAnyReply(r) == r.kind = "str" /\ r.text # << >>

\* mount_client.py:196  `response and "OpenAstro" in response`
HandshakeAccepts(r) ==
    r.kind = "str" /\ r.text # << >> /\ Contains(r.text, VENDOR)

\* Commands written to the transport whose response has not been read yet.
InFlight == {t \in Callers : mpc[t] = "read"}

\* _serial_command returns v in thread t: to send_command, which leaves the
\* `with self._lock` block and returns v (mount_client.py:252-254), or to
\* _connect_serial, which binds it to `response` (mount_client.py:195).
SerialReturn(t, v) ==
    /\ buffer' = [buffer EXCEPT ![t] = << >>]
    /\ IF op[t] = "send"
       THEN /\ ret' = [ret EXCEPT ![t] = v]
            /\ lock' = NoHolder
            /\ mpc' = [mpc EXCEPT ![t] = "idle"]
            /\ UNCHANGED gvp_response
       ELSE /\ gvp_response' = v
            /\ mpc' = [mpc EXCEPT ![t] = "decide"]
            /\ UNCHANGED << ret, lock >>

\* mount_client.py:235-250  send_command is entered; not connected: None
send_command(t, e) ==
    /\ mpc[t] = "idle"
    /\ op' = [op EXCEPT ![t] = "send"]
    /\ IF ~mount_connected
       THEN /\ ret' = [ret EXCEPT ![t] = RetNone]
            /\ UNCHANGED << mpc, expect_response >>
       ELSE /\ mpc' = [mpc EXCEPT ![t] = "acquire"]
            /\ expect_response' = [expect_response EXCEPT ![t] = e]
            /\ UNCHANGED ret
    /\ UNCHANGED << mount_connected, mode, serial_conn, lock, rx, buffer,
                    gvp_response, sessionVars, answer, calc >>

\* mount_client.py:252  `with self._lock:` blocks until the lock is free
Acquire(t) ==
    /\ mpc[t] = "acquire"
    /\ lock = NoHolder
    /\ lock' = t
    /\ mpc' = [mpc EXCEPT ![t] = "dispatch"]
    /\ UNCHANGED << mount_connected, mode, serial_conn, rx, op, expect_response,
                    buffer, ret, gvp_response, sessionVars, answer, calc >>

\* mount_client.py:253-258  dispatch on self.mode; no mode: None.  Mode
\* 'indi' is never set by a serial connect and would return None as well
\* (mount_client.py:290-295).
Dispatch(t) ==
    /\ mpc[t] = "dispatch"
    /\ IF mode = "serial"
       THEN /\ mpc' = [mpc EXCEPT ![t] = "reset"]
            /\ UNCHANGED << lock, ret >>
       ELSE /\ mpc' = [mpc EXCEPT ![t] = "idle"]
            /\ lock' = NoHolder
            /\ ret' = [ret EXCEPT ![t] = RetNone]
    /\ UNCHANGED << mount_connected, mode, serial_conn, rx, op, expect_response,
                    buffer, gvp_response, sessionVars, answer, calc >>

\* mount_client.py:264  self.serial_conn.reset_input_buffer(); raises when
\* serial_conn is None or closed, and the except clause returns None (286-288)
ResetInput(t) ==
    /\ mpc[t] = "reset"
    /\ IF serial_conn = "open"
       THEN /\ rx' = << >>
            /\ mpc' = [mpc EXCEPT ![t] = "write"]
            /\ UNCHANGED << lock, buffer, ret, gvp_response >>
       ELSE /\ SerialReturn(t, RetNone)
            /\ UNCHANGED rx
    /\ UNCHANGED << mount_connected, mode, serial_conn, op, expect_response,
                    sessionVars, answer, calc >>

\* What the mount answers to the command thread t is writing.
Replies(t) ==
    IF op[t] = "connect" THEN GVPReplies
    ELSE IF expect_response[t] THEN QueryReplies
    ELSE { << >> }

\* mount_client.py:267-273  self.serial_conn.write(command); without
\* expect_response return "", else start reading with response = "".  The
\* mount's answer arrives on the line after the write.
Write(t) ==
    /\ mpc[t] = "write"
    /\ IF serial_conn = "open"
       THEN \E r \in Replies(t) :
                /\ rx' = rx \o r
                /\ IF expect_response[t]
                   THEN /\ mpc' = [mpc EXCEPT ![t] = "read"]
                        /\ buffer' = [buffer EXCEPT ![t] = << >>]
                        /\ UNCHANGED << lock, ret, gvp_response >>
                   ELSE SerialReturn(t, RetStr(<< >>))
       ELSE /\ SerialReturn(t, RetNone)
            /\ UNCHANGED rx
    /\ UNCHANGED << mount_connected, mode, serial_conn, op, expect_response,
                    sessionVars, answer, calc >>

\* A read that keeps the terminator in the response.
ReadKeepsTerminator(t) ==
    /\ mpc[t] = "read"
    /\ IF serial_conn = "open"
       THEN /\ rx # << >>
            /\ Head(rx) = "#" \/ Len(buffer[t]) < MaxResponse
            /\ rx' = Tail(rx)
            /\ IF Head(rx) = "#"
               THEN SerialReturn(t, RetStr(Append(buffer[t], "#")))
               ELSE /\ buffer' = [buffer EXCEPT ![t] = Append(@, Head(rx))]
                    /\ UNCHANGED << mpc, lock, ret, gvp_response >>
       ELSE /\ SerialReturn(t, RetNone)
            /\ UNCHANGED rx
    /\ UNCHANGED << mount_connected, mode, serial_conn, op, expect_response,
                    sessionVars, answer, calc >>

\* mount_client.py:275-280  one character is waiting: read it; '#' ends the
\* response, any other character is appended.  Reading from a port that is
\* None or closed raises, and the except clause returns None (286-288).
Read(t) ==
    /\ mpc[t] = "read"
    /\ IF serial_conn = "open"
       THEN /\ rx # << >>
            /\ Head(rx) = "#" \/ Len(buffer[t]) < MaxResponse
            /\ rx' = Tail(rx)
            /\ IF Head(rx) = "#"
               THEN SerialReturn(t, RetStr(buffer[t]))
               ELSE /\ buffer' = [buffer EXCEPT ![t] = Append(@, Head(rx))]
                    /\ UNCHANGED << mpc, lock, ret, gvp_response >>
       ELSE /\ SerialReturn(t, RetNone)
            /\ UNCHANGED rx
    /\ UNCHANGED << mount_connected, mode, serial_conn, op, expect_response,
                    sessionVars, answer, calc >>

\* mount_client.py:275, 284  2.0 s have passed: return what was read so far
ReadTimeout(t) ==
    /\ mpc[t] = "read"
    /\ SerialReturn(t, RetStr(buffer[t]))
    /\ UNCHANGED << mount_connected, mode, serial_conn, rx, op, expect_response,
                    sessionVars, answer, calc >>

\* mount_client.py:116-136, app.py:135-136  connect(mode='serial'); already
\* connected: True
connect(t) ==
    /\ mpc[t] = "idle"
    /\ op' = [op EXCEPT ![t] = "connect"]
    /\ IF mount_connected
       THEN /\ ret' = [ret EXCEPT ![t] = RetBool(TRUE)]
            /\ UNCHANGED << mpc, expect_response, gvp_response >>
       ELSE /\ mpc' = [mpc EXCEPT ![t] = "open"]
            /\ expect_response' = [expect_response EXCEPT ![t] = TRUE]
            /\ gvp_response' = RetNone
            /\ UNCHANGED ret
    /\ UNCHANGED << mount_connected, mode, serial_conn, lock, rx, buffer,
                    sessionVars, answer, calc >>

\* mount_client.py:185-192, 206-210  serial.Serial(...) opens the port, or
\* raises: an earlier port object is closed, False is returned
OpenPort(t) ==
    /\ mpc[t] = "open"
    /\ \E opened \in BOOLEAN :
        IF opened
        THEN /\ serial_conn' = "open"
             /\ rx' = << >>
             /\ mpc' = [mpc EXCEPT ![t] = "reset"]
             /\ UNCHANGED ret
        ELSE /\ serial_conn' = IF serial_conn = None THEN None ELSE "closed"
             /\ mpc' = [mpc EXCEPT ![t] = "idle"]
             /\ ret' = [ret EXCEPT ![t] = RetBool(FALSE)]
             /\ UNCHANGED rx
    /\ UNCHANGED << mount_connected, mode, lock, op, expect_response, buffer,
                    gvp_response, sessionVars, answer, calc >>

\* mount_client.py:196-210  the handshake's verdict
HandshakeDecide(t) ==
    /\ mpc[t] = "decide"
    /\ mpc' = [mpc EXCEPT ![t] = "idle"]
    /\ IF HandshakeAccepts(gvp_response)
       THEN /\ mode' = "serial"
            /\ mount_connected' = TRUE
            /\ ret' = [ret EXCEPT ![t] = RetBool(TRUE)]
            /\ UNCHANGED serial_conn
       ELSE /\ serial_conn' = IF serial_conn = None THEN None ELSE "closed"
            /\ ret' = [ret EXCEPT ![t] = RetBool(FALSE)]
            /\ UNCHANGED << mode, mount_connected >>
    /\ UNCHANGED << lock, rx, op, expect_response, buffer, gvp_response,
                    sessionVars, answer, calc >>

\* mount_client.py:212-233  disconnect: close the port, forget it, clear
\* mode and _connected; the lock is not taken
disconnect(t) ==
    /\ mpc[t] = "idle"
    /\ IF mode = "serial" /\ serial_conn # None
       THEN serial_conn' = None /\ rx' = << >>
       ELSE UNCHANGED << serial_conn, rx >>
    /\ mode' = None
    /\ mount_connected' = FALSE
    /\ ret' = [ret EXCEPT ![t] = RetNone]
    /\ UNCHANGED << lock, mpc, op, expect_response, buffer, gvp_response,
                    sessionVars, answer, calc >>

\* One step of a thread inside the mount client.
MountStep(t) ==
    \/ Acquire(t)
    \/ Dispatch(t)
    \/ ResetInput(t)
    \/ Write(t)
    \/ Read(t)
    \/ ReadTimeout(t)
    \/ OpenPort(t)
    \/ HandshakeDecide(t)

\* The auto-align thread sends commands (app.py:471, 506-507, 512); the
\* request handler sends commands, connects and disconnects, one request at
\* a time (app.py:62-161).
NextMount ==
    \/ \E t \in Callers, e \in BOOLEAN : send_command(t, e)
    \/ connect("http")
    \/ disconnect("http")
    \/ \E t \in Callers : MountStep(t)

SpecMount == Init /\ [][NextMount]_vars

\* Scenario "reading one response": the auto-align thread has written a
\* query and is in the read loop of _serial_command (mount_client.py:275-284);
\* the line delivers an arbitrary text of at most MaxInput characters.
MaxInput == 3

\* The characters the line may deliver.
LineChars == {"0", "1", "#"}

\* All texts over LineChars of length at most n.
RECURSIVE Texts(_)
Texts(n) ==
    IF n = 0 THEN { << >> }
    ELSE LET shorter == Texts(n - 1)
         IN  shorter \cup {Append(x, c) : x \in shorter, c \in LineChars}

InitRead ==
    /\ InitWorkers
    /\ calc = NoCall
    /\ journaling = FALSE
    /\ last_pa_error = NoError
    /\ last_solve_result = None
    /\ misalignment = PAError(0, 0)
    /\ run_misalignment = [w \in Workers |-> PAError(0, 0)]
    /\ mount_connected = TRUE
    /\ mode = "serial"
    /\ serial_conn = "open"
    /\ lock = "loop"
    /\ rx \in Texts(MaxInput)
    /\ mpc = [t \in Callers |-> IF t = "loop" THEN "read" ELSE "idle"]
    /\ op = [t \in Callers |-> "send"]
    /\ expect_response = [t \in Callers |-> TRUE]
    /\ buffer = [t \in Callers |-> << >>]
    /\ ret = [t \in Callers |-> RetNone]
    /\ gvp_response = RetNone
    /\ answer = [t \in Callers |-> RetNone]

NextRead ==
    \/ Read("loop")
    \/ ReadTimeout("loop")

SpecRead == InitRead /\ [][NextRead]_vars

\* ------------------------------------------------------------ status queries
\* is_tracking, is_slewing and is_adjusting (mount_client.py:329-382) turn the
\* response of one send_command call into a bool.

\* The longest response text the queries are given.
MaxStatus == 6

\* The characters a response is made of: a flag digit, the field separator,
\* an idle motor and a moving one.
StatusChars == {"1", ",", "-", "Z"}

RECURSIVE StatusTexts(_)
StatusTexts(n) ==
    IF n = 0 THEN { << >> }
    ELSE LET shorter == StatusTexts(n - 1)
         IN  shorter \cup {Append(x, c) : x \in shorter, c \in StatusChars}

\* A call of query q that is waiting for its send_command to return.
Pending(q) == [kind |-> "pending", query |-> q]

\* A comparison that accepts every response beginning with "1".
ResponseStartsWithOne(v) == v.kind = "str" /\ v.text # << >> /\ Head(v.text) = "1"

\* mount_client.py:340, 355  `response == "1"`: None and every other string
\* compare unequal
ResponseIsOne(v) == v = RetStr(<< "1" >>)

\* str.split(','): the fields of a text, in order (at least one).
RECURSIVE Split(_)
Split(text) ==
    IF \A i \in 1..Len(text) : text[i] # ","
    THEN << text >>
    ELSE LET i == CHOOSE j \in 1..Len(text) :
                      text[j] = "," /\ \A k \in 1..(j - 1) : text[k] # ","
         IN  << SubSeq(text, 1, i - 1) >> \o Split(SubSeq(text, i + 1, Len(text)))

\* A test that reports movement only when both motors move.
BothMotorsMoving(v) ==
    /\ v.kind = "str"
    /\ v.text # << >>
    /\ LET parts == Split(v.text)
       IN  /\ Len(parts) >= 2
           /\ Len(parts[2]) >= 5
           /\ (parts[2][4] # "-" /\ parts[2][5] # "-")

\* mount_client.py:371-382  is_adjusting on the status v: `if status:`,
\* parts = status.split(','), motion = parts[1], motion[3] != '-' or
\* motion[4] != '-' (Python offsets 3 and 4 are positions 4 and 5 here)
StatusIsAdjusting(v) ==
    /\ v.kind = "str"
    /\ v.text # << >>
    /\ LET parts == Split(v.text)
       IN  /\ Len(parts) >= 2
           /\ Len(parts[2]) >= 5
           /\ (parts[2][4] # "-" \/ parts[2][5] # "-")

\* Scenario "one status query": a thread is inside is_tracking, is_slewing or
\* is_adjusting and its send_command has returned: None from a client that
\* is not connected or whose command failed, else the text read.
InitQueries ==
    /\ InitWorkers
    /\ calc = NoCall
    /\ journaling = FALSE
    /\ last_pa_error = NoError
    /\ last_solve_result = None
    /\ misalignment = PAError(0, 0)
    /\ run_misalignment = [w \in Workers |-> PAError(0, 0)]
    /\ mount_connected \in BOOLEAN
    /\ mode = IF mount_connected THEN "serial" ELSE None
    /\ serial_conn = IF mount_connected THEN "open" ELSE None
    /\ lock = NoHolder
    /\ rx = << >>
    /\ mpc = [t \in Callers |-> "idle"]
    /\ op = [t \in Callers |-> "send"]
    /\ expect_response = [t \in Callers |-> TRUE]
    /\ buffer = [t \in Callers |-> << >>]
    /\ \E v \in {RetNone} \cup {RetStr(x) : x \in StatusTexts(MaxStatus)} :
          /\ ~mount_connected => v = RetNone
          /\ ret = [t \in Callers |-> IF t = "loop" THEN v ELSE RetNone]
    /\ gvp_response = RetNone
    /\ \E q \in {"is_tracking", "is_slewing", "is_adjusting"} :
          answer = [t \in Callers |-> IF t = "loop" THEN Pending(q) ELSE RetNone]

\* mount_client.py:339-340, 354-355  return response == "1"
is_flag_return(t) ==
    /\ answer[t].kind = "pending"
    /\ answer[t].query \in {"is_tracking", "is_slewing"}
    /\ mpc[t] = "idle"
    /\ answer' = [answer EXCEPT ![t] = RetBool(ResponseIsOne(ret[t]))]
    /\ UNCHANGED << devices, sessionVars, calc >>

\* mount_client.py:371-382  the value is_adjusting returns
is_adjusting_return(t) ==
    /\ answer[t].kind = "pending"
    /\ answer[t].query = "is_adjusting"
    /\ mpc[t] = "idle"
    /\ answer' = [answer EXCEPT ![t] = RetBool(StatusIsAdjusting(ret[t]))]
    /\ UNCHANGED << devices, sessionVars, calc >>

NextQueries ==
    \/ is_flag_return("loop")
    \/ is_adjusting_return("loop")

SpecQueries == InitQueries /\ [][NextQueries]_vars

\* mount_client.py:116-139  connect(mode=m) with m neither 'indi' nor
\* 'serial': `if self._connected: return True` comes first, then the else
\* branch logs and returns False; no field is assigned.
connect_unsupported(t) ==
    /\ mpc[t] = "idle"
    /\ op' = [op EXCEPT ![t] = "connect_unsupported"]
    /\ ret' = [ret EXCEPT ![t] = RetBool(mount_connected)]
    /\ UNCHANGED << mount_connected, mode, serial_conn, lock, rx, mpc,
                    expect_response, buffer, gvp_response, sessionVars, answer, calc >>

\* The mount client with callers that also pass an unsupported mode.
NextModes ==
    \/ NextMount
    \/ connect_unsupported("http")

SpecModes == Init /\ [][NextModes]_vars

\* ------------------------------------------------------------ pa_calculator
\* The functions of pa_calculator.py on whole degrees and whole arcminutes,
\* in exact arithmetic.

\* Right ascensions in [0, 360) and declinations a call is given, in degrees.
RAValues == {0, 1, 90, 179, 180, 181, 270, 359}
DecValues == {-60, 0, 60, 90}

\* pa_calculator.py:98-102  delta_ra (here in degrees): while it is above
\* 180 subtract 360, then while it is below -180 add 360
RECURSIVE WrapDeltaRA(_)
WrapDeltaRA(d) ==
    IF d > 180 THEN WrapDeltaRA(d - 360)
    ELSE IF d < -180 THEN WrapDeltaRA(d + 360)
    ELSE d

\* A difference that is used as it is.
RawDeltaRA(solved_ra, mount_ra) == solved_ra - mount_ra

\* pa_calculator.py:94-102  delta_ra = solved_ra - mount_ra, wrapped
DeltaRA(solved_ra, mount_ra) == WrapDeltaRA(solved_ra - mount_ra)

\* pa_calculator.py:119-121  ten times cos(mount_dec), not below 0.1:
\* cos(0) = 1, cos(+-60) = 0.5, cos(90) is below the floor
CosDecTenths(dec) ==
    CASE dec = 0           -> 10
      [] dec \in {-60, 60} -> 5
      [] dec = 90          -> 1

\* pa_calculator.py:94-129  delta_ra after wrapping (degrees), az_error and
\* alt_error (arcminutes).  total_error (l.141-152) is what PAError computes
\* from the two.
ErrorComponents(solved_ra, solved_dec, mount_ra, mount_dec) ==
    LET delta_ra == DeltaRA(solved_ra, mount_ra)
        delta_dec == solved_dec - mount_dec
    IN  [delta_ra  |-> delta_ra,
         az_error  |-> (delta_ra * 60 * 10) \div CosDecTenths(mount_dec),
         alt_error |-> delta_dec * 60]

\* Errors a correction is computed from: az_error and alt_error in arcminutes.
CorrectionErrors == {[az_error |-> az, alt_error |-> alt] : az \in -2..2, alt \in -2..2}

\* A correction that inverts the altitude as well.
CorrectionInvertsBoth(e, invert_az) ==
    [az  |-> IF invert_az THEN e.az_error ELSE -e.az_error,
     alt |-> -e.alt_error]

\* pa_calculator.py:235-256  calculate_correction(pa_error, invert_az)
calculate_correction(e, invert_az) ==
    LET az_correction == -e.az_error
    IN  [az  |-> IF invert_az THEN -az_correction ELSE az_correction,
         alt |-> e.alt_error]

\* pa_calculator.py:235  the default of invert_az, which app.py:502 relies on
InvertAzDefault == TRUE

\* pa_calculator.py:284  the cap of the estimate
ESTIMATE_CAP == 20

\* The largest current error an estimate is asked for.
MaxCurrent == 12

\* Current errors and targets an estimate is asked for, in arcseconds.
EstimateErrors == -2..MaxCurrent
EstimateTargets == -2..6

RECURSIVE Pow(_, _)
Pow(b, n) == IF n = 0 THEN 1 ELSE b * Pow(b, n - 1)

\* pa_calculator.py:284-285  `error > target_accuracy` after n
\* multiplications by 0.6, error = current * (3/5)^n.  With current above a
\* target that is not positive the product stays above it for every n.
Above(current, n, target) ==
    IF target <= 0 /\ current > target THEN TRUE
    ELSE current * Pow(3, n) > target * Pow(5, n)

\* A loop condition that admits one multiplication more.
KeepReducingInclusive(current, n, target) == Above(current, n, target) /\ n <= ESTIMATE_CAP

\* pa_calculator.py:284  while error > target_accuracy and iterations < 20
KeepReducing(current, n, target) == Above(current, n, target) /\ n < ESTIMATE_CAP

RECURSIVE ReduceFrom(_, _, _)
ReduceFrom(current, n, target) ==
    IF KeepReducing(current, n, target) THEN ReduceFrom(current, n + 1, target) ELSE n

\* pa_calculator.py:273-288  estimate_iterations(current_error, target_accuracy)
estimate_iterations(current, target) ==
    IF current <= target THEN 0 ELSE ReduceFrom(current, 0, target)

\* ----------------------------------------------- coordinate text parsing
\* pa_calculator.py:155-232. Mount coordinate texts are sequences of
\* characters. Parsed angles are kept exact in arcseconds of a degree, so
\* 15 * (HH + MM/60 + SS/3600) degrees is 15 * (3600*HH + 60*MM + SS).

\* The components a text is built from: numbers, an empty component and a
\* non-numeric one.
SexaFields == {<<>>, <<"0">>, <<"1", "0">>, <<"3", "0">>, <<"x">>}

\* The characters the mount firmware variants put between components.
Separators == {":", "*", "'", "\""}

\* A text of three components d, m, s with the sign prefix p and
\* the separators u and v.
Sexagesimal(p, d, u, m, v, s) == p \o d \o << u >> \o m \o << v >> \o s

\* The unsigned texts: the empty text, a bare number, and two, three or
\* four components joined by separators.
CoordTexts ==
    {<<>>} \cup SexaFields
    \cup {a \o <<s>> \o b : a \in SexaFields, b \in SexaFields, s \in Separators}
    \cup {a \o <<s>> \o b \o <<t>> \o c
            : a \in SexaFields, b \in SexaFields, c \in SexaFields,
              s \in Separators, t \in Separators}
    \cup {a \o <<s>> \o b \o <<s>> \o c \o <<s>> \o d
            : a \in {<<"0">>, <<"1", "0">>}, b \in SexaFields, c \in SexaFields,
              d \in SexaFields, s \in {":", "*"}}

\* A parsed angle, as the float the parsers return.
RetFloat(v) == [kind |-> "float", value |-> v]

\* int(text) and float(text) on texts of digits: the number, or -1 where
\* Python raises ValueError (an empty text or any other character).
RECURSIVE Number(_)
Number(text) ==
    IF Len(text) = 0 THEN -1
    ELSE LET c == text[Len(text)]
             d == CASE c = "0" -> 0 [] c = "1" -> 1 [] c = "3" -> 3 [] OTHER -> -1
         IN  IF d < 0 THEN -1
             ELSE IF Len(text) = 1 THEN d
             ELSE LET p == Number(SubSeq(text, 1, Len(text) - 1))
                  IN  IF p < 0 THEN -1 ELSE 10 * p + d

\* text.split(':')
RECURSIVE Fields(_)
Fields(text) ==
    IF \A i \in 1..Len(text) : text[i] # ":" THEN << text >>
    ELSE LET i == CHOOSE k \in 1..Len(text) :
                     text[k] = ":" /\ \A j \in 1..(k - 1) : text[j] # ":"
         IN  << SubSeq(text, 1, i - 1) >> \o Fields(SubSeq(text, i + 1, Len(text)))

\* pa_calculator.py:216 text.replace('*', ':').replace("'", ':').replace('"', '')
RECURSIVE ReplaceSeparators(_)
ReplaceSeparators(text) ==
    IF text = <<>> THEN <<>>
    ELSE LET c == Head(text)
         IN  (IF c \in {"*", "'"} THEN << ":" >>
              ELSE IF c = "\"" THEN <<>>
              ELSE << c >>) \o ReplaceSeparators(Tail(text))

\* A parser that drops the sign character without looking at it.
SignDropped(c) == c = c

\* pa_calculator.py:208-213: the value is negated only when the first
\* character is '-'.
SignIsPositive(c) == c # "-"

\* Hours taken for degrees.
HoursAsDegrees(h) == h

\* pa_calculator.py:179, 184: hours become degrees, 15 to the hour.
HoursToDegrees(h) == 15 * h

\* pa_calculator.py:155-188 parse_ra_string. reply is what the position
\* query returned: a text or None. Every exception ends in None.
parse_ra_string(reply) ==
    IF reply.kind = "None" THEN RetNone
    ELSE LET parts == Fields(reply.text)
         IN  IF Len(parts) = 3
             THEN LET hours == Number(parts[1])
                      minutes == Number(parts[2])
                      seconds == Number(parts[3])
                  IN  IF hours < 0 \/ minutes < 0 \/ seconds < 0 THEN RetNone
                      ELSE RetFloat(HoursToDegrees(3600 * hours + 60 * minutes + seconds))
             ELSE LET hours == Number(reply.text)
                  IN  IF hours < 0 THEN RetNone ELSE RetFloat(HoursToDegrees(3600 * hours))

\* pa_calculator.py:191-232 parse_dec_string.
parse_dec_string(reply) ==
    IF reply.kind = "None" \/ Len(reply.text) = 0 THEN RetNone
    ELSE LET first == reply.text[1]
             sign == IF SignIsPositive(first) THEN 1 ELSE -1
             unsigned == IF first \in {"+", "-"} THEN Tail(reply.text)
                         ELSE reply.text
             parts == Fields(ReplaceSeparators(unsigned))
         IN  IF Len(parts) >= 2
             THEN LET degrees == Number(parts[1])
                      minutes == Number(parts[2])
                      seconds == IF Len(parts) > 2 THEN Number(parts[3]) ELSE 0
                  IN  IF degrees < 0 \/ minutes < 0 \/ seconds < 0 THEN RetNone
                      ELSE RetFloat(sign * (3600 * degrees + 60 * minutes + seconds))
             ELSE LET degrees == Number(parts[1])
                  IN  IF degrees < 0 THEN RetNone ELSE RetFloat(sign * 3600 * degrees)

\* ------------------------------------------------- one pass of the loop
\* app.py:449-517 read as the sequence of things one pass through the loop
\* body does, given how the camera, the solver, the parsers and the mount
\* turn out: the status events by their message, the capture and the solve,
\* the assignments to the shared results, and the commands passed to the
\* mount client.

\* The position query with its two commands exchanged.
DeclinationFirst == << ":GD#", ":GR#" >>

\* mount_client.py:311-313 get_position asks for the right ascension, then
\* for the declination.
get_position == << ":GR#", ":GD#" >>

\* app.py:506-507 move_azimuth, then move_altitude (mount_client.py:448, 464).
MoveCommands == << ":MAZ", ":MAL" >>

\* A failure branch that reports the failure and carries on with the pass.
FallThrough(message, rest) == << message >> \o rest

\* app.py:454-457, 463-466, 475-478: a failure emits its event and
\* `continue`s, skipping the rest of the pass.
Continue(message, rest) == << message >>

\* app.py:449-517. busy is the number of status polls that find a motor
\* moving (app.py:512-514; is_adjusting sends :GX#, mount_client.py:371, 327).
LoopBody(captured, solved, parsed, aligned, busy) ==
    LET correct == << "Applying correction" >> \o MoveCommands
                   \o [i \in 1..((IF busy < WAIT_LIMIT THEN busy ELSE WAIT_LIMIT) + 1)
                          |-> ":GX#"]
        judge == << "last_pa_error =", "Error =" >>
                 \o (IF aligned THEN << "Aligned!" >> ELSE correct)
        locate == << "last_solve_result =" >> \o get_position
                  \o (IF parsed THEN judge
                      ELSE Continue("Cannot read mount position", judge))
        solve == << "Solving...", "solve" >>
                 \o (IF solved THEN locate
                     ELSE Continue("Plate solve failed - check framing", locate))
    IN  << "Capturing...", "capture" >>
        \o (IF captured THEN solve ELSE Continue("Capture failed", solve))

\* ------------------------------------------------- typed mount operations
\* mount_client.py:299-481 on a client no other thread is using: what one
\* typed operation writes to the transport, how many responses it reads and
\* what it returns.

\* str.lower() and str.upper() on the letters the callers pass.
LowerCase(c) ==
    CASE c = "N" -> "n" [] c = "S" -> "s" [] c = "A" -> "a"
      [] c = "M" -> "m" [] c = "G" -> "g" [] OTHER -> c

UpperCase(c) ==
    CASE c = "n" -> "N" [] c = "s" -> "S" [] c = "a" -> "A"
      [] c = "c" -> "C" [] c = "e" -> "E" [] c = "w" -> "W" [] OTHER -> c

\* A test that lets every direction through.
AnyDirection(d) == d = d

\* mount_client.py:397, 417  `direction in ['n', 's', 'e', 'w']`
ValidDirection(d) == d \in {"n", "s", "e", "w"}

\* A client that never refuses a command.
NeverRefuses == FALSE

\* mount_client.py:248  `if not self._connected:`
NotConnected == ~mount_connected

\* The commands operation c passes to send_command, in order, each with its
\* expect_response argument. Amounts are in hundredths of an arcminute and
\* formatted as f"{arcminutes:+.2f}" (mount_client.py:448, 464).
Commands(c) ==
    LET Query(name) == << [text |-> << name, "#" >>, expect_response |-> TRUE] >>
        Order(text) == << [text |-> text, expect_response |-> FALSE] >>
        Digit(n) == CASE n = 0 -> "0" [] n = 1 -> "1" [] n = 2 -> "2" [] n = 3 -> "3"
                      [] n = 4 -> "4" [] n = 5 -> "5" [] n = 6 -> "6" [] n = 7 -> "7"
                      [] n = 8 -> "8" [] n = 9 -> "9"
        Format(a) == LET m == IF a < 0 THEN 0 - a ELSE a
                     IN  << IF a < 0 THEN "-" ELSE "+", Digit(m \div 100), ".",
                            Digit((m % 100) \div 10), Digit(m % 10) >>
    IN  CASE c.operation = "get_position" -> Query(":GR") \o Query(":GD")
          [] c.operation \in {"get_status", "is_adjusting"} -> Query(":GX")
          [] c.operation = "is_slewing" -> Query(":GIS")
          [] c.operation = "is_tracking" -> Query(":GIT")
          [] c.operation = "set_tracking" ->
                Query(IF c.enabled THEN ":MT1" ELSE ":MT0")
          [] c.operation = "start_slew" ->
                IF ValidDirection(LowerCase(c.direction))
                THEN Order(<< ":M", LowerCase(c.direction), "#" >>) ELSE << >>
          [] c.operation = "stop_slew" ->
                IF LowerCase(c.direction) = "a" THEN Order(<< ":Q", "#" >>)
                ELSE IF ValidDirection(LowerCase(c.direction))
                THEN Order(<< ":Q", LowerCase(c.direction), "#" >>) ELSE << >>
          [] c.operation = "set_slew_rate" ->
                IF UpperCase(c.rate) \in {"S", "M", "C", "G"}
                THEN Order(<< ":R", UpperCase(c.rate), "#" >>) ELSE << >>
          [] c.operation = "move_azimuth" ->
                Order(<< ":MAZ" >> \o Format(c.arcminutes) \o << "#" >>)
          [] c.operation = "move_altitude" ->
                Order(<< ":MAL" >> \o Format(c.arcminutes) \o << "#" >>)

\* mount_client.py:248-270: send_command returns None without writing when
\* the client is not connected; otherwise the command is written, and the
\* response is read only with expect_response ("" is returned without).
\* reply is what the mount answers to a query.
TypedOperation(c, reply) ==
    LET sent == Commands(c)
        answered(i) == IF NotConnected THEN RetNone
                       ELSE IF sent[i].expect_response THEN reply
                       ELSE RetStr(<< >>)
    IN  [written |-> IF NotConnected THEN << >>
                     ELSE [i \in 1..Len(sent) |-> sent[i].text],
         reads |-> IF NotConnected THEN 0
                   ELSE Cardinality({i \in 1..Len(sent) : sent[i].expect_response}),
         returned |->
            CASE c.operation = "get_position" -> << answered(1), answered(2) >>
              [] c.operation = "get_status" -> answered(1)
              [] c.operation \in {"is_slewing", "is_tracking"} ->
                    RetBool(ResponseIsOne(answered(1)))
              [] c.operation = "is_adjusting" -> RetBool(StatusIsAdjusting(answered(1)))
              [] OTHER -> RetNone]

\* The calls made: one function applied to arguments drawn from the sets
\* above.
Calls ==
    {[fn |-> "calculate_pa_error", solved_ra |-> sr, solved_dec |-> sd,
      mount_ra |-> mr, mount_dec |-> md, done |-> FALSE]
        : sr \in RAValues, sd \in DecValues, mr \in RAValues, md \in DecValues}
    \cup {[fn |-> "calculate_correction", error |-> e, invert_az |-> i, done |-> FALSE]
        : e \in CorrectionErrors, i \in BOOLEAN}
    \cup {[fn |-> "apply_correction", error |-> e, done |-> FALSE] : e \in CorrectionErrors}
    \cup {[fn |-> "estimate_iterations", current |-> c, target |-> t, done |-> FALSE]
        : c \in EstimateErrors, t \in EstimateTargets}
    \cup {[fn |-> "parse_ra_string", response |-> r, done |-> FALSE]
        : r \in {RetNone} \cup {RetStr(t) : t \in CoordTexts}}
    \cup {[fn |-> "parse_dec_string", response |-> r, done |-> FALSE]
        : r \in {RetNone} \cup {RetStr(p \o t) : p \in {<<>>, <<"+">>, <<"-">>},
                                                 t \in CoordTexts}}
    \cup {[fn |-> "auto_align_loop", captured |-> c, solved |-> v, parsed |-> p,
           aligned |-> a, busy |-> b, done |-> FALSE]
        : c \in BOOLEAN, v \in BOOLEAN, p \in BOOLEAN, a \in BOOLEAN, b \in 0..MaxBusy}
    \cup {[fn |-> "mount", operation |-> o, reply |-> r, done |-> FALSE]
        : o \in {"get_position", "get_status", "is_slewing", "is_tracking", "is_adjusting"},
          r \in {RetStr(<< >>), RetStr(<< "1" >>)}}
    \cup {[fn |-> "mount", operation |-> "set_tracking", enabled |-> e, reply |-> r,
           done |-> FALSE]
        : e \in BOOLEAN, r \in {RetStr(<< >>), RetStr(<< "1" >>)}}
    \cup {[fn |-> "mount", operation |-> o, direction |-> d, reply |-> RetStr(<< >>),
           done |-> FALSE]
        : o \in {"start_slew", "stop_slew"},
          d \in {"n", "N", "s", "S", "e", "w", "a", "A", "x", "M", "c", "G"}}
    \cup {[fn |-> "mount", operation |-> "set_slew_rate", rate |-> d,
           reply |-> RetStr(<< >>), done |-> FALSE]
        : d \in {"n", "N", "s", "S", "e", "w", "a", "A", "x", "M", "c", "G"}}
    \cup {[fn |-> "mount", operation |-> o, arcminutes |-> a, reply |-> RetStr(<< >>),
           done |-> FALSE]
        : o \in {"move_azimuth", "move_altitude"}, a \in {0 - 50, 0, 525}}
    \cup {[fn |-> "mount_position", ra_str |-> r, dec_str |-> d, done |-> FALSE]
        : r \in {RetNone} \cup {RetStr(Sexagesimal(<<>>, h, ":", m, ":", <<"0">>))
                                    : h \in {<<"0">>, <<"1", "0">>, <<"3", "0">>},
                                      m \in {<<"0">>, <<"3", "0">>, <<"x">>}},
          d \in {RetNone} \cup {RetStr(Sexagesimal(p, g, "*", m, ":", <<"0">>))
                                    : p \in {<<"+">>, <<"-">>},
                                      g \in {<<"0">>, <<"3", "0">>, <<"1", "0", "0">>},
                                      m \in {<<"0">>, <<"3", "0">>, <<"x">>}}}

InitCalc ==
    /\ InitWorkers
    /\ journaling = FALSE
    /\ last_pa_error = NoError
    /\ last_solve_result = None
    /\ InitMount \/ InitMountConnected
    /\ misalignment = PAError(0, 0)
    /\ run_misalignment = [w \in Workers |-> PAError(0, 0)]
    /\ calc \in Calls

\* The call returns r.
Return(r) ==
    /\ ~calc.done
    /\ calc' = [calc EXCEPT !.done = TRUE] @@ [result |-> r]
    /\ UNCHANGED << devices, sessionVars, answer >>

\* pa_calculator.py:57-152
calculate_pa_error_call ==
    /\ calc.fn = "calculate_pa_error"
    /\ Return(ErrorComponents(calc.solved_ra, calc.solved_dec, calc.mount_ra, calc.mount_dec))

\* pa_calculator.py:235-256
calculate_correction_call ==
    /\ calc.fn = "calculate_correction"
    /\ Return(calculate_correction(calc.error, calc.invert_az))

\* app.py:502-507  az_correction, alt_correction = calculate_correction(pa_error);
\* mount.move_azimuth(az_correction); mount.move_altitude(alt_correction):
\* the amounts the two move commands carry
apply_correction ==
    /\ calc.fn = "apply_correction"
    /\ LET c == calculate_correction(calc.error, InvertAzDefault)
       IN  Return([MAZ |-> c.az, MAL |-> c.alt])

\* pa_calculator.py:259-288
estimate_iterations_call ==
    /\ calc.fn = "estimate_iterations"
    /\ Return(estimate_iterations(calc.current, calc.target))

\* pa_calculator.py:155-188
parse_ra_string_call ==
    /\ calc.fn = "parse_ra_string"
    /\ Return(parse_ra_string(calc.response))

\* pa_calculator.py:191-232
parse_dec_string_call ==
    /\ calc.fn = "parse_dec_string"
    /\ Return(parse_dec_string(calc.response))

\* app.py:470-484: the loop asks the mount for its position, parses both
\* replies and, unless one failed to parse, hands the pair to the error
\* model as the mount's sky coordinate.
read_mount_position ==
    /\ calc.fn = "mount_position"
    /\ LET mount_ra == parse_ra_string(calc.ra_str)
           mount_dec == parse_dec_string(calc.dec_str)
       IN  IF mount_ra = RetNone \/ mount_dec = RetNone
           THEN Return([fed |-> FALSE])
           ELSE Return([fed |-> TRUE, mount_ra |-> mount_ra.value,
                        mount_dec |-> mount_dec.value])

\* app.py:449-517
loop_body ==
    /\ calc.fn = "auto_align_loop"
    /\ Return(LoopBody(calc.captured, calc.solved, calc.parsed, calc.aligned, calc.busy))

\* mount_client.py:299-481
typed_operation ==
    /\ calc.fn = "mount"
    /\ Return(TypedOperation(calc, calc.reply))

NextCalc ==
    \/ calculate_pa_error_call
    \/ calculate_correction_call
    \/ apply_correction
    \/ estimate_iterations_call
    \/ parse_ra_string_call
    \/ parse_dec_string_call
    \/ read_mount_position
    \/ loop_body
    \/ typed_operation

SpecCalc == InitCalc /\ [][NextCalc]_vars

\* -------------------------------------------------------------------- claims

\* C1: in every reachable state at most one auto-align worker is alive
\* (started and not yet returned from auto_align_loop).
C1_AtMostOneWorkerAlive == Cardinality(AliveWorkers) <= 1

\* C2: a start request made while a run is active answers "already running",
\* creates no thread and leaves alignment_running, alignment_thread,
\* last_pa_error and last_solve_result as they were.
C2_StartWhileRunningRejected ==
    [][ (alignment_running /\ api_auto_align_start({TARGET_ACCURACY}))
        => /\ response' = "alreadyRunning"
           /\ pc' = pc
           /\ UNCHANGED << alignment_running, alignment_thread,
                           last_pa_error, last_solve_result >> ]_vars

C2_Witness ==
    /\ response = "alreadyRunning"
    /\ alignment_running
    /\ Cardinality(AliveWorkers) = 1

\* C3: once stop was requested while a worker was alive, that worker makes no
\* capture call in an iteration later than the one the request fell in.
C3_NoCaptureAfterStop ==
    \A w \in Workers : stopIter[w] >= 0 => lastCapIter[w] <= stopIter[w]

\* C4: the iteration counter never exceeds MAX_ITERATIONS and a worker makes
\* at most MAX_ITERATIONS capture calls.
C4_IterationsBounded ==
    \A w \in Workers :
        /\ iteration[w] <= MAX_ITERATIONS
        /\ captures[w] <= MAX_ITERATIONS

C4_Witness ==
    \E w \in Workers :
        /\ pc[w] = "done"
        /\ iteration[w] = MAX_ITERATIONS
        /\ captures[w] = MAX_ITERATIONS

\* C5: no run emits both the success event ('Aligned!') and the
\* 'Max iterations reached' warning.
C5_NoWarningAfterSuccess ==
    \A w \in Workers :
        ~(emitted[w]["aligned"] > 0 /\ emitted[w]["max_iterations"] > 0)

\* C6: in the shrinking-error scenario, a run whose first measured error is
\* not below its target and whose error drops below the target within
\* MAX_ITERATIONS iterations eventually emits the success event and returns,
\* and it returns after exactly that many iterations, the same on every
\* execution.
C6_Converges(w) ==
    FirstBelow(run_misalignment[w], target_accuracy[w]) > 0

C6_ShrinkingErrorAligns ==
    /\ [](\A w \in Workers :
            (pc[w] = "done" /\ C6_Converges(w))
               => /\ emitted[w]["aligned"] = 1
                  /\ iteration[w] = FirstBelow(run_misalignment[w], target_accuracy[w])
                  /\ captures[w] = iteration[w])
    /\ \A w \in Workers : (pc[w] = "started") ~> (pc[w] = "done")

C6_Witness ==
    \E w \in Workers :
        /\ pc[w] = "done"
        /\ run_misalignment[w].total_error >= target_accuracy[w]
        /\ FirstBelow(run_misalignment[w], target_accuracy[w]) = MAX_ITERATIONS
        /\ emitted[w]["aligned"] = 1

\* C7: in the solve-always-fails scenario a run performs exactly
\* MAX_ITERATIONS iterations, emits one 'check framing' warning per failed
\* iteration, then the max-iterations warning, and returns with
\* alignment_running false.
C7_SolveAlwaysFails ==
    /\ [](\A w \in Workers :
            /\ pc[w] \in {"loop", "exit", "done"} => emitted[w]["framing"] = iteration[w]
            /\ pc[w] = "done"
                 => /\ iteration[w] = MAX_ITERATIONS
                    /\ emitted[w]["framing"] = MAX_ITERATIONS
                    /\ emitted[w]["max_iterations"] = 1
                    /\ emitted[w]["finished"] = 1
                    /\ emitted[w]["aligned"] = 0)
    /\ [][\A w \in Workers :
            (pc[w] # "done" /\ pc'[w] = "done") => ~alignment_running']_vars
    /\ \A w \in Workers : (pc[w] = "started") ~> (pc[w] = "done")

C7_Witness ==
    \E w \in Workers :
        /\ pc[w] = "done"
        /\ emitted[w]["framing"] = MAX_ITERATIONS
        /\ ~alignment_running

\* C8: at most one command is in flight on the mount transport at any time,
\* over all interleavings of the auto-align thread and the request handler,
\* the connect handshake included.
C8_OneCommandInFlight == Cardinality(InFlight) <= 1

\* C9: a serial connect returns through its handshake verdict only in one of
\* two ways: the ':GVP#' response contains the vendor text, and the client is
\* connected in serial mode on the open port and True is returned; or it
\* does not, and False is returned, _connected stays false and the port is
\* left closed.
C9_HandshakeDecides ==
    [][ \A t \in Callers :
          (op[t] = "connect" /\ mpc[t] = "decide" /\ mpc'[t] = "idle") =>
              IF gvp_response.kind = "str" /\ Contains(gvp_response.text, VENDOR)
              THEN /\ ret'[t] = RetBool(TRUE)
                   /\ mount_connected' /\ mode' = "serial" /\ serial_conn' = "open"
              ELSE /\ ret'[t] = RetBool(FALSE)
                   /\ ~mount_connected /\ ~mount_connected'
                   /\ serial_conn' = "closed" ]_vars

\* A handshake that read another product's name has returned False and left
\* the port closed.
C9_Witness ==
    /\ op["http"] = "connect" /\ mpc["http"] = "idle"
    /\ gvp_response = RetStr(<< "Astro" >>)
    /\ ret["http"] = RetBool(FALSE)
    /\ ~mount_connected /\ serial_conn = "closed"

\* C10: every started run eventually ends with the 'finished' event emitted
\* and, at that moment, alignment_running false.
C10_EveryRunEnds ==
    /\ [][\A w \in Workers :
            (pc[w] # "done" /\ pc'[w] = "done")
               => (~alignment_running' /\ emitted'[w]["finished"] = 1)]_vars
    /\ \A w \in Workers : (pc[w] = "started") ~> (pc[w] = "done")

C10_Witness ==
    \E w \in Workers :
        /\ pc[w] = "done"
        /\ stopIter[w] >= 0
        /\ emitted[w]["finished"] = 1
        /\ emitted[w]["aligned"] = 0
        /\ emitted[w]["max_iterations"] = 0

\* C11: a capture failure does not consume an iteration: when the loop goes
\* back to capture after 'Capture failed', the iteration count is the one the
\* failed capture had.
C11_CaptureFailureKeepsIteration ==
    [][ \A w \in Workers :
          ( /\ pc[w] = "loop"
            /\ last_event[w].message = "Capture failed"
            /\ pc'[w] = "capture" )
          => iteration'[w] = iteration[w] ]_vars

\* C12: the event the loop emits on a capture failure has level 'warning'.
C12_CaptureFailureIsWarning ==
    \A w \in Workers :
        last_event[w].message = "Capture failed" => last_event[w].level = "warning"

\* C13: in an iteration in which the azimuth move command reached the mount,
\* the altitude move command of the same correction reaches it too, whatever
\* is requested between the two.
C13_BothMovesSent ==
    \A w \in Workers :
        (pc[w] = "settle" /\ "az" \in moves[w]) => "alt" \in moves[w]

\* C14: with a motor that stays busy, a settling phase makes at most
\* WAIT_LIMIT sleeping polls: wait_count never exceeds WAIT_LIMIT, the poll
\* made at WAIT_LIMIT ends the phase, and every settling phase is left for the
\* next iteration.
C14_SettlingTerminates ==
    /\ [](\A w \in Workers : wait_count[w] <= WAIT_LIMIT)
    /\ [][\A w \in Workers :
            (pc[w] = "settle" /\ wait_count[w] = WAIT_LIMIT /\ wait_count'[w] # WAIT_LIMIT)
               => pc'[w] = "loop"]_vars
    /\ \A w \in Workers : (pc[w] = "settle") ~> (pc[w] = "loop")

C14_Witness ==
    \E w \in Workers :
        /\ pc[w] = "settle"
        /\ wait_count[w] = WAIT_LIMIT
        /\ moves[w] = {"az", "alt"}

\* C15: a position query whose RA or Dec text cannot be parsed makes the loop
\* emit 'Cannot read mount position' at level 'error' and go back to the
\* loop head with the run flag and the iteration count as they were; from
\* there the next iteration starts when the flag is set and the budget is not
\* used up, and the loop is left otherwise.
C15_PositionFailureContinues ==
    /\ [][\A w \in Workers :
            ( /\ pc[w] = "measure"
              /\ pc'[w] \notin {"measure", "move_azimuth"}
              /\ last_event'[w].message # "Aligned!" )
            => /\ last_event'[w] = Event("Cannot read mount position", "error")
               /\ pc'[w] = "loop"
               /\ UNCHANGED << alignment_running, iteration, emitted >>]_vars
    /\ [][\A w \in Workers :
            ( /\ pc[w] = "loop"
              /\ last_event[w].message = "Cannot read mount position"
              /\ pc'[w] # "loop" )
            => IF alignment_running /\ iteration[w] < MAX_ITERATIONS
               THEN pc'[w] = "capture" /\ iteration'[w] = iteration[w] + 1
               ELSE pc'[w] = "exit"]_vars

C15_Witness ==
    \E w \in Workers :
        /\ pc[w] = "capture"
        /\ iteration[w] = 2
        /\ emitted[w]["framing"] = 0
        /\ captures[w] = 1
        /\ last_solve_result = "result"
        /\ last_pa_error = NoError
        /\ mount_connected

\* C16: an iteration that measured an error ends the loop successfully
\* exactly when the total error is strictly below the run's target: it then
\* emits the success event and sends no move command, and the loop starts no
\* further iteration; otherwise (an error equal to the target included) no
\* success event is emitted and the correction is issued.
C16_AlignedExactlyBelowTarget ==
    /\ [][\A w \in Workers :
            (pc[w] = "measure" /\ pc'[w] \notin {"measure", "loop"})
            => IF last_pa_error'.total_error < target_accuracy[w]
               THEN /\ pc'[w] = "exit"
                    /\ last_event'[w] = Event("Aligned!", "success")
                    /\ emitted'[w]["aligned"] = emitted[w]["aligned"] + 1
                    /\ moves'[w] = {}
               ELSE /\ pc'[w] = "move_azimuth"
                    /\ emitted'[w]["aligned"] = emitted[w]["aligned"]]_vars
    /\ [][\A w \in Workers :
            pc[w] \in {"exit", "done"}
            => /\ pc'[w] \in {"exit", "done"}
               /\ iteration'[w] = iteration[w]
               /\ moves'[w] = moves[w]]_vars

\* A run measured an error equal to its target and is applying the
\* correction.
C16_Witness ==
    \E w \in Workers :
        /\ pc[w] = "move_altitude"
        /\ last_pa_error # NoError
        /\ last_pa_error.total_error = target_accuracy[w]
        /\ moves[w] = {"az"}
        /\ emitted[w]["aligned"] = 0

\* C17: while a run is active, last_pa_error and last_solve_result are
\* written only by the loop's worker: a step that changes either of them
\* while alignment_running holds is a step of a worker thread.
C17_OnlyWorkerWritesResults ==
    [][(alignment_running /\ << last_pa_error, last_solve_result >>' # << last_pa_error, last_solve_result >>)
       => \E w \in Workers : Alive(w) /\ pc'[w] # pc[w]]_vars

\* C18: the pa_error entry of a status response is a consistent copy: its
\* az, alt and total values are those of one PAError.
C18_StatusIsConsistentCopy ==
    (spc = "idle" /\ DOMAIN status_pa_error = Range(PAErrorKeys))
    => \E e \in PAErrors :
          /\ status_pa_error["az"] = e.az_error
          /\ status_pa_error["alt"] = e.alt_error
          /\ status_pa_error["total"] = e.total_error

\* C19: while a status request holds the mount lock, no worker of a run is
\* at a step whose mount command has to wait for that lock.
C19_StatusNeverBlocksWorker ==
    \A w \in Workers :
        (pc[w] \in {"measure", "move_azimuth", "move_altitude", "settle"} /\ mount_connected)
        => ~(spc # "idle" /\ lock = "http")

\* C20: no failed step of an iteration is silent: a capture that fails, a
\* solve that fails, a position that cannot be read and a move command that
\* is not delivered because the mount is no longer connected each emit an
\* event before the loop goes on.
C20_NoSilentFailure ==
    [][\A w \in Workers :
          \/ pc[w] \in {"capture", "solve", "measure"} /\ pc'[w] = "loop"
          \/ pc[w] \in {"move_azimuth", "move_altitude"} /\ pc'[w] # pc[w] /\ ~mount_connected
          => last_event'[w] # last_event[w]]_vars

\* The state of the run's state machine a worker at position p is in; at the
\* loop test and on the way out the worker is between two states.
RunState(p) ==
    CASE p \in {"unborn", "started", "done"}         -> "Idle"
      [] p = "capture"                               -> "Capturing"
      [] p = "solve"                                 -> "Solving"
      [] p = "measure"                               -> "Measuring"
      [] p \in {"move_azimuth", "move_altitude"}      -> "Correcting"
      [] p = "settle"                                -> "Settling"
      [] OTHER                                       -> "between"

\* C21: the loop emits at least one event for every state transition of the
\* run: a step that brings a worker into another state of the run emits an
\* event.
C21_EventPerTransition ==
    [][\A w \in Workers :
          (RunState(pc'[w]) # RunState(pc[w]) /\ RunState(pc'[w]) # "between")
          => last_event'[w] # last_event[w]]_vars

\* C22: stop always succeeds and is idempotent: whether or not a run is
\* active it answers success, clears alignment_running and changes nothing
\* else of the program; applied to the state a stop has left, it leaves that
\* state as it is.
C22_StopIdempotent ==
    [][api_auto_align_stop
       => /\ response' = "success"
          /\ alignment_running' = FALSE
          /\ UNCHANGED << alignment_thread, last_pa_error, last_solve_result,
                          devices, locals >>
          /\ ( ( /\ ~alignment_running
                 /\ response = "success"
                 /\ \A w \in Workers : Alive(w) => stopIter[w] # -1 )
               => UNCHANGED vars )]_vars

\* A stop request arrived during a run, whose worker is still alive.
C22_Witness ==
    \E w \in Workers :
        /\ Alive(w)
        /\ stopIter[w] = iteration[w]
        /\ ~alignment_running
        /\ response = "success"
        /\ mount_connected

\* C23: connect with a mode other than 'serial' or 'indi' returns False,
\* opens no transport and leaves mode, _connected and serial_conn unchanged.
C23_UnsupportedModeFails ==
    [][\A t \in Callers :
          connect_unsupported(t)
          => /\ ret'[t] = RetBool(FALSE)
             /\ UNCHANGED << mode, mount_connected, serial_conn >>]_vars

\* The characters thread t has received and those still waiting, in order.
Received(t) == buffer[t] \o rx

HasTerminator(text) == \E i \in 1..Len(text) : text[i] = "#"

\* C24: reading a response returns exactly the characters received before
\* the first '#', consumes the terminator and nothing after it; when the
\* timeout elapses first it returns the characters accumulated so far
\* (possibly none) and consumes nothing more.
C24_ReadUpToTerminator ==
    /\ [](\A t \in Callers : ~HasTerminator(buffer[t]))
    /\ [][\A t \in Callers :
            (Read(t) /\ serial_conn = "open")
            => IF mpc'[t] = "read"
               THEN buffer'[t] \o rx' = Received(t)
               ELSE LET v == IF op[t] = "send" THEN ret'[t] ELSE gvp_response'
                    IN  /\ v.kind = "str"
                        /\ ~HasTerminator(v.text)
                        /\ v.text \o << "#" >> \o rx' = Received(t)]_vars
    /\ [][\A t \in Callers :
            ReadTimeout(t)
            => LET v == IF op[t] = "send" THEN ret'[t] ELSE gvp_response'
               IN  /\ v.kind = "str"
                   /\ ~HasTerminator(v.text)
                   /\ v.text \o rx' = Received(t)]_vars

\* A read returned "1" at the terminator and left the character after it
\* waiting.
C24_Witness ==
    /\ mpc["loop"] = "idle"
    /\ ret["loop"] = RetStr(<< "1" >>)
    /\ rx = << "0" >>

\* C25: is_slewing and is_tracking return True if and only if the response
\* is exactly the text "1"; any other text, an empty or longer one, a
\* missing response and a client that is not connected give False.
C25_FlagTrueOnlyForOne ==
    [][\A t \in Callers :
          is_flag_return(t)
          => /\ answer'[t].kind = "bool"
             /\ answer'[t].value
                  <=> ( /\ mount_connected
                        /\ ret[t].kind = "str"
                        /\ Len(ret[t].text) = 1
                        /\ ret[t].text[1] = "1" )]_vars

\* is_slewing has returned False for the response "11".
C25_Witness ==
    /\ answer["loop"] = RetBool(FALSE)
    /\ ret["loop"] = RetStr(<< "1", "1" >>)

\* The field of index 1 of a text with a separator: the characters between
\* its first separator and the next one, or the end of the text.
FieldOne(text) ==
    LET first == CHOOSE i \in 1..Len(text) :
                     text[i] = "," /\ \A k \in 1..(i - 1) : text[k] # ","
        later == {j \in (first + 1)..Len(text) : text[j] = ","}
        stop  == IF later = {} THEN Len(text) + 1
                 ELSE CHOOSE j \in later : \A k \in later : j <= k
    IN  SubSeq(text, first + 1, stop - 1)

\* C26: is_adjusting returns True if and only if the status has at least two
\* comma-delimited fields, field 1 has at least 5 characters and its
\* character at offset 3 or at offset 4 is not '-'; a missing, empty or
\* shorter status gives False.
C26_AdjustingFromMotionFlags ==
    [][\A t \in Callers :
          is_adjusting_return(t)
          => /\ answer'[t].kind = "bool"
             /\ answer'[t].value
                  <=> ( /\ ret[t].kind = "str"
                        /\ \E i \in 1..Len(ret[t].text) : ret[t].text[i] = ","
                        /\ Len(FieldOne(ret[t].text)) >= 5
                        /\ \/ FieldOne(ret[t].text)[4] # "-"
                           \/ FieldOne(ret[t].text)[5] # "-" )]_vars

\* is_adjusting has returned True for the status ",----Z": only the
\* altitude motor moves.
C26_Witness ==
    /\ answer["loop"] = RetBool(TRUE)
    /\ ret["loop"] = RetStr(<< ",", "-", "-", "-", "-", "Z" >>)

\* A call of function f has returned.
Returned(f) == calc.fn = f /\ calc.done

\* C27: for solved and reported right ascensions in [0, 360) the RA
\* difference calculate_pa_error uses lies in (-180, 180]; a raw difference
\* of -180 is wrapped to +180.
C27_DeltaRAHalfOpen ==
    Returned("calculate_pa_error")
    => /\ -180 < calc.result.delta_ra
       /\ calc.result.delta_ra <= 180

\* C28: for equal declinations, swapping the solved and the reported right
\* ascension negates the azimuth error; solved 359, reported 1 gives the
\* azimuth error of a difference of -2 degrees and solved 1, reported 359
\* that of +2 degrees, never that of 358 degrees.
C28_RAWraparound ==
    (Returned("calculate_pa_error") /\ calc.solved_dec = calc.mount_dec)
    => LET az == calc.result.az_error
           swapped == ErrorComponents(calc.mount_ra, calc.mount_dec,
                                      calc.solved_ra, calc.solved_dec)
       IN  /\ az = -swapped.az_error
           /\ (calc.solved_ra = 359 /\ calc.mount_ra = 1)
                  => az * CosDecTenths(calc.mount_dec) = -2 * 60 * 10
           /\ (calc.solved_ra = 1 /\ calc.mount_ra = 359)
                  => az * CosDecTenths(calc.mount_dec) = 2 * 60 * 10

\* The call with solved 359, reported 1 on the equator has returned an
\* azimuth error of -120 arcminutes.
C28_Witness ==
    /\ Returned("calculate_pa_error")
    /\ calc.solved_ra = 359 /\ calc.mount_ra = 1
    /\ calc.solved_dec = 0 /\ calc.mount_dec = 0
    /\ calc.result.az_error = -120

\* C29: calculate_correction returns the altitude error unchanged for both
\* settings of invert_az, the negated azimuth error when invert_az is false
\* and the azimuth error itself when it is true; the amounts the loop's move
\* commands carry are those of the default inversion.
C29_CorrectionSigns ==
    /\ Returned("calculate_correction")
         => /\ calc.result.alt = calc.error.alt_error
            /\ calc.result.az = IF calc.invert_az THEN calc.error.az_error
                                 ELSE -calc.error.az_error
    /\ Returned("apply_correction")
         => /\ calc.result.MAL = calc.error.alt_error
            /\ calc.result.MAZ = calc.error.az_error

\* The loop has computed its move amounts from an error with both
\* components non-zero.
C29_Witness ==
    /\ Returned("apply_correction")
    /\ calc.error = [az_error |-> 2, alt_error |-> -1]
    /\ calc.result = [MAZ |-> 2, MAL |-> -1]

C31_DecSignSymmetry ==
    Returned("parse_dec_string") /\ calc.response.kind = "str" =>
        \A d, m, s \in {f \in SexaFields : Number(f) >= 0}, u, v \in {":", "*", "'"} :
            LET magnitude == 3600 * Number(d) + 60 * Number(m) + Number(s)
            IN  /\ calc.response.text = Sexagesimal(<<"-">>, d, u, m, v, s)
                    => calc.result = RetFloat(0 - magnitude)
                /\ calc.response.text \in {Sexagesimal(<<"+">>, d, u, m, v, s),
                                           Sexagesimal(<<>>, d, u, m, v, s)}
                    => calc.result = RetFloat(magnitude)

\* -0:30:0 has been parsed to minus half a degree.
C31_Witness ==
    /\ Returned("parse_dec_string")
    /\ calc.response = RetStr(<<"-", "0", ":", "3", "0", ":", "0">>)
    /\ calc.result = RetFloat(0 - 1800)

\* C32: the declination parser treats ':', '*', ''' and '"' as
\* interchangeable separators, so a valid triple parses to the same value
\* whatever separators join it, and a text of two components, or of four,
\* is a parse error, as is one with a non-numeric component.
C32_DecSeparators ==
    Returned("parse_dec_string") /\ calc.response.kind = "str" =>
        \A p \in {<<>>, <<"+">>, <<"-">>}, u, v \in Separators :
            /\ \A d, m, s \in {f \in SexaFields : Number(f) >= 0} :
                 calc.response.text = Sexagesimal(p, d, u, m, v, s)
                    => calc.result = RetFloat((IF p = <<"-">> THEN -1 ELSE 1)
                           * (3600 * Number(d) + 60 * Number(m) + Number(s)))
            /\ \A d, m, s, f \in SexaFields :
                 /\ calc.response.text = p \o d \o << u >> \o m
                        => calc.result = RetNone
                 /\ calc.response.text = Sexagesimal(p, d, u, m, u, s) \o << u >> \o f
                        => calc.result = RetNone
                 /\ (calc.response.text = Sexagesimal(p, d, u, m, v, s)
                        /\ \E g \in {d, m, s} : Number(g) < 0)
                        => calc.result = RetNone

\* C33: the right ascension parser returns 15 * (HH + MM/60 + SS/3600)
\* degrees for the text HH:MM:SS and 15 * h for a bare number of hours, and
\* a parse error for two components, four components, a non-numeric
\* component, the empty text and a missing response.
C33_RightAscensionParse ==
    Returned("parse_ra_string") =>
        /\ calc.response = RetNone => calc.result = RetNone
        /\ calc.response = RetStr(<<>>) => calc.result = RetNone
        /\ \A h, m, s, f \in SexaFields :
             /\ calc.response = RetStr(Sexagesimal(<<>>, h, ":", m, ":", s))
                  => calc.result =
                        IF Number(h) >= 0 /\ Number(m) >= 0 /\ Number(s) >= 0
                        THEN RetFloat(15 * (3600 * Number(h) + 60 * Number(m) + Number(s)))
                        ELSE RetNone
             /\ calc.response = RetStr(h)
                  => calc.result = IF Number(h) >= 0 THEN RetFloat(15 * 3600 * Number(h))
                                   ELSE RetNone
             /\ calc.response = RetStr(h \o <<":">> \o m) => calc.result = RetNone
             /\ calc.response = RetStr(Sexagesimal(<<>>, h, ":", m, ":", s) \o <<":">> \o f)
                  => calc.result = RetNone

\* 10:30:0 has been parsed to 157.5 degrees.
C33_Witness ==
    /\ Returned("parse_ra_string")
    /\ calc.response = RetStr(<<"1", "0", ":", "3", "0", ":", "0">>)
    /\ calc.result = RetFloat(567000)

\* C34: every sky coordinate the loop hands to the error model after a
\* position query has its right ascension in [0, 360) degrees and its
\* declination in [-90, 90] degrees, whatever numeric text the mount sent.
C34_PositionNormalised ==
    Returned("mount_position") /\ calc.result.fed =>
        /\ 0 <= calc.result.mount_ra /\ calc.result.mount_ra < 360 * 3600
        /\ 0 - 90 * 3600 <= calc.result.mount_dec /\ calc.result.mount_dec <= 90 * 3600

\* C35: within one iteration the actions occur in the fixed order capture,
\* solve, position query (right ascension, then declination), progress
\* event, correction event, azimuth move, altitude move, status polls; a
\* move is issued only after that iteration's progress and correction
\* events, and the azimuth move always precedes the altitude move.
C35_IterationOrder ==
    Returned("auto_align_loop") =>
        LET did == calc.result
            order == << "capture", "solve", ":GR#", ":GD#", "Error =",
                        "Applying correction", ":MAZ", ":MAL", ":GX#" >>
            At(a) == {i \in 1..Len(did) : did[i] = a}
            Before(a, b) == \A j \in At(b) : \E i \in At(a) : i < j
        IN  /\ \A m, n \in 1..Len(order) :
                   m < n => \A i \in At(order[m]), j \in At(order[n]) : i < j
            /\ \A a \in {"capture", "solve", ":GR#", ":GD#", "Error =",
                         "Applying correction", ":MAZ", ":MAL"} : Cardinality(At(a)) <= 1
            /\ Before("Error =", ":MAZ") /\ Before("Applying correction", ":MAZ")
            /\ Before("Error =", ":MAL") /\ Before("Applying correction", ":MAL")
            /\ Before(":MAZ", ":MAL")
            /\ Before(":GR#", ":GD#")

\* A pass that corrected the mount and polled it twice has returned.
C35_Witness ==
    /\ Returned("auto_align_loop")
    /\ calc.result = << "Capturing...", "capture", "Solving...", "solve",
                        "last_solve_result =", ":GR#", ":GD#", "last_pa_error =",
                        "Error =", "Applying correction", ":MAZ", ":MAL", ":GX#", ":GX#" >>

\* C36: an iteration in which the capture fails, the solve fails or the
\* position cannot be parsed issues no azimuth or altitude move and does
\* not assign the last error; after a capture or solve failure it sends no
\* command to the mount at all.
C36_FailedIterationInert ==
    Returned("auto_align_loop") =>
        LET did == {calc.result[i] : i \in 1..Len(calc.result)}
        IN  /\ ~(calc.captured /\ calc.solved /\ calc.parsed)
                => did \cap {":MAZ", ":MAL", "last_pa_error ="} = {}
            /\ ~(calc.captured /\ calc.solved)
                => did \cap {":GR#", ":GD#", ":MAZ", ":MAL", ":GX#"} = {}

\* A pass whose position could not be parsed has returned after its
\* position query.
C36_Witness ==
    /\ Returned("auto_align_loop")
    /\ calc.captured /\ calc.solved /\ ~calc.parsed
    /\ calc.result = << "Capturing...", "capture", "Solving...", "solve",
                        "last_solve_result =", ":GR#", ":GD#",
                        "Cannot read mount position" >>

C40_NotConnectedInert ==
    [][(typed_operation /\ ~mount_connected) =>
          /\ calc'.result.written = << >>
          /\ calc'.result.reads = 0
          /\ calc'.result.returned =
                CASE calc.operation = "get_position" -> << RetNone, RetNone >>
                  [] calc.operation \in {"is_slewing", "is_tracking", "is_adjusting"} ->
                        RetBool(FALSE)
                  [] OTHER -> RetNone
          /\ UNCHANGED devices]_vars

\* A client that is not connected has been asked for the position and has
\* returned (None, None).
C40_Witness ==
    /\ Returned("mount")
    /\ ~mount_connected
    /\ calc.operation = "get_position"
    /\ calc.result.returned = << RetNone, RetNone >>
    /\ calc.result.written = << >>

\* C38: a worker clears alignment_running only for its own run: the final
\* `alignment_running = False` of a worker that is not the thread of the
\* latest start never turns the flag of a newer run off, and whenever
\* alignment_running is true exactly one worker is alive.
C38_WorkerClearsOwnRun ==
    /\ [](alignment_running => Cardinality(AliveWorkers) = 1)
    /\ [][\A w \in Workers :
            (pc[w] = "exit" /\ pc'[w] = "done" /\ alignment_running /\ ~alignment_running')
                => alignment_thread = w]_vars

\* C39: disconnect excludes a command in flight: the transport is never
\* closed and cleared while another thread is between writing a command
\* and the end of the read of its response, and a command begun through
\* send_command writes to the transport only while the client is connected,
\* so none writes once disconnect has returned.
C39_DisconnectExcludesCommand ==
    /\ [][disconnect("http") => InFlight = {}]_vars
    /\ [][\A t \in Callers :
            (op[t] = "send" /\ mpc[t] = "write" /\ mpc'[t] # "write" /\ serial_conn = "open")
                => mount_connected]_vars

====
